---- MODULE Spec2Model ----
(***************************************************************************)
(* A model of obsidian-pdf-gen's Markdown-to-LaTeX transpiler              *)
(* (obsidian_pdf_gen/generate_pdf/md_notes_pdf.py).                        *)
(*                                                                         *)
(* Text is modelled character by character: a Python str is a sequence of  *)
(* one-character strings, a list of lines is a sequence of such sequences. *)
(* The backquote character, which a TLA+ string cannot hold, is the        *)
(* element "BACKTICK".                                                     *)
(* Every function of the transpiler is an operator that computes what the  *)
(* Python code computes; a raised exception is a result record whose exc   *)
(* field names the exception.                                              *)
(***************************************************************************)
EXTENDS Integers, Sequences, FiniteSets, TLC

VARIABLES
  vault,          \* the files under the working directory: name -> lines
  args,           \* the arguments add_note was called with
  pc,             \* add_note's position: "pop", "line", "done", "raised"; "idle" in the harness
  note_paths,     \* add_note's worklist
  tex,            \* add_note's output buffer: the fragments, in order
  lines,          \* the lines of the note being processed (mutated in place)
  ln,             \* index (0-based) of the next line of the for loop
  lines_to_skip,  \* the skip list of the note being processed
  note_tex,       \* self.note_tex, <<"unset">> before it is assigned
  exc,            \* the exception add_note raised, "" if none
  hist,           \* observation: what each loop step did
  call,           \* call harness: the function applied and its arguments
  ret             \* call harness: what the function returned

vars == <<vault, args, pc, note_paths, tex, lines, ln, lines_to_skip, note_tex, exc,
          hist, call, ret>>

(***************************************************************************)
(* Python's str and list primitives.                                       *)
(***************************************************************************)

\* s.startswith(p)
startswith(s, p) == Len(p) <= Len(s) /\ SubSeq(s, 1, Len(p)) = p

\* s.endswith(p)
endswith(s, p) == Len(p) <= Len(s) /\ SubSeq(s, Len(s) - Len(p) + 1, Len(s)) = p

\* The least element of a non-empty set of integers.
Least(S) == CHOOSE i \in S : \A j \in S : i <= j

\* s.find(p, from), 1-based; 0 when p does not occur at or after from.
find(s, p, from) ==
  LET hits == { i \in from..(Len(s) - Len(p) + 1) : SubSeq(s, i, i + Len(p) - 1) = p }
  IN  IF hits = {} THEN 0 ELSE Least(hits)

\* s.rfind(p), 1-based; 0 when p does not occur.
rfind(s, p) ==
  LET hits == { i \in 1..(Len(s) - Len(p) + 1) : SubSeq(s, i, i + Len(p) - 1) = p }
  IN  IF hits = {} THEN 0 ELSE CHOOSE i \in hits : \A j \in hits : j <= i

\* p in s
contains(s, p) == find(s, p, 1) # 0

RECURSIVE count_from(_, _, _)
count_from(s, p, from) ==
  LET i == find(s, p, from)
  IN  IF i = 0 THEN 0 ELSE 1 + count_from(s, p, i + Len(p))

\* s.count(p): the non-overlapping occurrences of the non-empty p
count(s, p) == count_from(s, p, 1)

RECURSIVE replace_from(_, _, _, _)
replace_from(s, old, new, from) ==
  LET i == find(s, old, from)
  IN  IF i = 0 THEN SubSeq(s, from, Len(s))
      ELSE SubSeq(s, from, i - 1) \o new \o replace_from(s, old, new, i + Len(old))

RECURSIVE interleave(_, _)
interleave(s, new) ==
  IF s = <<>> THEN new ELSE new \o <<Head(s)>> \o interleave(Tail(s), new)

\* s.replace(old, new): every non-overlapping occurrence, left to right; an
\* empty old matches before every character and at the end.
replace(s, old, new) ==
  IF old = <<>> THEN interleave(s, new) ELSE replace_from(s, old, new, 1)

RECURSIVE lstrip_chars(_, _)
\* s.lstrip(chars): drop leading characters that are in the set chars
lstrip_chars(s, chars) ==
  IF s # <<>> /\ Head(s) \in chars THEN lstrip_chars(Tail(s), chars) ELSE s

RECURSIVE rstrip_chars(_, _)
rstrip_chars(s, chars) ==
  IF s # <<>> /\ s[Len(s)] \in chars
  THEN rstrip_chars(SubSeq(s, 1, Len(s) - 1), chars) ELSE s

\* The characters str.strip()/lstrip()/split() treat as white space.
Whitespace == {" ", "\t", "\n", "\r"}

\* s.lstrip()
lstrip(s) == lstrip_chars(s, Whitespace)

\* s.strip()
strip(s) == rstrip_chars(lstrip_chars(s, Whitespace), Whitespace)

RECURSIVE split_from(_, _, _)
split_from(s, sep, from) ==
  LET i == find(s, sep, from)
  IN  IF i = 0 THEN << SubSeq(s, from, Len(s)) >>
      ELSE << SubSeq(s, from, i - 1) >> \o split_from(s, sep, i + Len(sep))

\* s.split(sep)
split(s, sep) == split_from(s, sep, 1)

RECURSIVE split_ws(_)
\* s.split(): the maximal runs of non-white-space characters
split_ws(s) ==
  LET t == lstrip(s)
      ends == { i \in 1..Len(t) : t[i] \in Whitespace }
      e == IF ends = {} THEN Len(t) + 1 ELSE Least(ends)
  IN  IF t = <<>> THEN <<>>
      ELSE << SubSeq(t, 1, e - 1) >> \o split_ws(SubSeq(t, e, Len(t)))

RECURSIVE join(_, _)
\* sep.join(parts)
join(sep, parts) ==
  IF parts = <<>> THEN <<>>
  ELSE IF Len(parts) = 1 THEN parts[1]
  ELSE parts[1] \o sep \o join(sep, Tail(parts))

\* "".join(parts)
concat(parts) == join(<<>>, parts)

RECURSIVE findall_from(_, _, _, _, _)
findall_from(s, open, close, min, from) ==
  LET i == find(s, open, from)
      b == i + Len(open)
      qs == { q \in (b + min)..(Len(s) - Len(close) + 1) :
                /\ SubSeq(s, q, q + Len(close) - 1) = close
                /\ \A k \in b..(q - 1) : s[k] # "\n" }
  IN  IF i = 0 THEN <<>>
      ELSE IF qs = {} THEN findall_from(s, open, close, min, i + 1)
      ELSE << SubSeq(s, b, Least(qs) - 1) >>
             \o findall_from(s, open, close, min, Least(qs) + Len(close))

\* re.findall(open(.*?)close, s) with min = 0 and re.findall(open(.+?)close, s)
\* with min = 1: the captured groups of the non-overlapping matches, scanning
\* left to right, each match the shortest at its start; "." matches no newline.
findall(s, open, close, min) == findall_from(s, open, close, min, 1)

\* range(a, b) as a sequence
range(a, b) == [i \in 1..(IF b > a THEN b - a ELSE 0) |-> a + i - 1]

\* The elements of a sequence.
Elems(s) == { s[i] : i \in 1..Len(s) }

\* n copies of s, concatenated
RECURSIVE times(_, _)
times(s, n) == IF n <= 0 THEN <<>> ELSE s \o times(s, n - 1)

(***************************************************************************)
(* Bounds of the model.                                                    *)
(***************************************************************************)
\* The longest note (in lines) add_note is run on.
MaxNoteLen == 3
\* The most notes add_note takes from the worklist in one run.
MaxPopped == 5
\* The most items of one level in the lists the bullet recognizer is called on.
MaxItems == 3
\* The most '#' characters at the start of the lines the heading recognizer
\* is called on.
MaxHashes == 6
\* The most rows in the tables the table recognizer is called on.
MaxRows == 3
\* The most lines after the marker line in the notes the conversion routine
\* is called on.
MaxLater == 2
\* The most lines between the fences of the first code block of a note.
MaxBody == 2
\* The most lines of a note with front matter.
MaxFront == 3
\* The most lines of a block quote.
MaxQuote == 3
(***************************************************************************)
(* The Style/Inline Transformer and the Special-Character Escaper.         *)
(***************************************************************************)

\* The test both functions use for "a math equation is present".
math_present(line) ==
  \/ (count(line, <<"$">>) % 1 = 0 /\ count(line, <<"$">>) > 1)
  \/ (count(line, <<"$", "$">>) % 1 = 0 /\ count(line, <<"$", "$">>) > 1)

\* re.findall(r"\$\$(.*?)\$\$", line) + re.findall(r"\$(.*?)\$", line)
math_contents(line) ==
  findall(line, <<"$", "$">>, <<"$", "$">>, 0) \o findall(line, <<"$">>, <<"$">>, 0)

\* The test for "inline code is present".
inline_present(line) ==
  count(line, <<"BACKTICK">>) % 1 = 0 /\ count(line, <<"BACKTICK">>) > 1

\* re.findall(r"`(.*?)`", line)
inline_contents(line) == findall(line, <<"BACKTICK">>, <<"BACKTICK">>, 0)

RECURSIVE restore_from(_, _, _, _)
restore_from(line, contents, original, e) ==
  IF e > Len(contents) THEN line
  ELSE restore_from(replace(line, contents[e], original[e]), contents, original, e + 1)

\* for e, content in enumerate(contents): line = line.replace(content, original[e])
restore(line, contents, original) == restore_from(line, contents, original, 1)

RECURSIVE wrap_each(_, _, _, _, _, _)
\* for word in words: line = line.replace(open + word + close, pre + word + post)
wrap_each(line, words, open, close, pre, post) ==
  IF words = <<>> THEN line
  ELSE wrap_each(replace(line, open \o Head(words) \o close, pre \o Head(words) \o post),
                 Tail(words), open, close, pre, post)

RECURSIVE wrap_inline(_, _)
wrap_inline(line, words) ==
  IF words = <<>> THEN line
  ELSE wrap_inline(
         IF Head(words) # <<"BACKTICK">>
         THEN replace(line, <<"BACKTICK">> \o Head(words) \o <<"BACKTICK">>,
                <<"\\", "i", "n", "l", "i", "n", "e", "c", "o", "d", "e", "[", "b", "g", "c", "o", "l", "o", "r", "=", "L", "i", "g", "h", "t", "G", "r", "a", "y", ",", " ", "f", "o", "n", "t", "s", "i", "z", "e", "=", "\\", "s", "c", "r", "i", "p", "t", "s", "i", "z", "e", "]", "{">> (* "\\inlinecode[bgcolor=LightGray, fontsize=\\scriptsize]{" *)
                  \o Head(words) \o <<"}">>)
         ELSE line,
         Tail(words))

RECURSIVE wrap_links(_, _, _)
\* for txt, link in zip(text_for_links, links)
wrap_links(line, texts, links) ==
  IF texts = <<>> \/ links = <<>> THEN line
  ELSE wrap_links(
         replace(line, <<"[">> \o Head(texts) \o <<"]", "(">> \o Head(links) \o <<")">>,
                 <<"\\", "h", "r", "e", "f", "{">> (* "\\href{" *) \o Head(links) \o <<"}", "{">> \o Head(texts) \o <<"}">>),
         Tail(texts), Tail(links))

RECURSIVE wrap_tags(_, _)
wrap_tags(line, words) ==
  IF words = <<>> THEN line
  ELSE wrap_tags(
         IF startswith(Head(words), <<"#">>) /\ Len(Head(words)) > 1
            /\ count(Head(words), <<"#">>) = 1
         THEN replace(line, Head(words), <<"\\", "p", "i", "l", "l", "{">> (* "\\pill{" *) \o Head(words) \o <<"}">>)
         ELSE line,
         Tail(words))

\* words = re.findall(r"\_(.*?)\_", line) and its loop
style_italic(line) ==
  wrap_each(line, findall(line, <<"_">>, <<"_">>, 0),
            <<"_">>, <<"_">>, <<"\\", "t", "e", "x", "t", "i", "t", "{">> (* "\\textit{" *), <<"}">>)

\* words = re.findall(r"\*\*(.*?)\*\*", line) and its loop
style_bold(line) ==
  wrap_each(line, findall(line, <<"*", "*">>, <<"*", "*">>, 0),
            <<"*", "*">>, <<"*", "*">>, <<"\\", "t", "e", "x", "t", "b", "f", "{">> (* "\\textbf{" *), <<"}">>)

\* words = re.findall(r"==(.*?)==", line) and its loop
style_highlight(line) ==
  wrap_each(line, findall(line, <<"=", "=">>, <<"=", "=">>, 0),
            <<"=", "=">>, <<"=", "=">>, <<"\\", "h", "l", "{">>, <<"}">>)

\* The web-link branch.
style_links(line) ==
  IF /\ contains(line, <<"[">>) /\ contains(line, <<"]">>)
     /\ contains(line, <<"(">>) /\ contains(line, <<")">>)
     /\ (contains(line, <<"h", "t", "t", "p">>) \/ contains(line, <<"w", "w", "w">>))
  THEN wrap_links(line, findall(line, <<"[">>, <<"]", "(">>, 0),
                  findall(line, <<"]", "(">>, <<")">>, 0))
  ELSE line

\* words = re.findall(r"`(.+?)`", line) and its loop
style_inline(line) == wrap_inline(line, findall(line, <<"BACKTICK">>, <<"BACKTICK">>, 1))

\* words = line.split() and the tag loop
style_tags(line) == wrap_tags(line, split_ws(line))

\* The final branch: the spans of the rewritten line are put back to the
\* contents found in the line as it came in.
style_restore(line, original_content) ==
  IF math_present(line) THEN restore(line, math_contents(line), original_content)
  ELSE line

replace_text_style(line0) ==
  style_restore(
    style_tags(style_inline(style_links(
      style_highlight(style_bold(style_italic(line0)))))),
    math_contents(line0))

\* The escapes applied to every line, in the order of the code.
escape_specials(line) ==
  LET a == replace(line, <<"&">>, <<"\\", "&">>)
      b == replace(a, <<"%">>, <<"\\", "%">>)
      c == replace(b, <<">">>, <<"\\", ">">>)
      d == replace(c, <<"<">>, <<"\\", "<">>)
      e == replace(d, <<"#">>, <<"\\", "#">>)
      f == replace(e, <<"-", "-", "-">>, <<"\\", "n", "o", "i", "n", "d", "e", "n", "t", "\\", "r", "u", "l", "e", "[", "0", ".", "5", "e", "x", "]", "{", "\\", "l", "i", "n", "e", "w", "i", "d", "t", "h", "}", "{", "1", "p", "t", "}">> (* "\\noindent\\rule[0.5ex]{\\linewidth}{1pt}" *))
  IN  replace(f, <<"*", "*", "*">>, <<"\\", "n", "o", "i", "n", "d", "e", "n", "t", "\\", "r", "u", "l", "e", "[", "0", ".", "5", "e", "x", "]", "{", "\\", "l", "i", "n", "e", "w", "i", "d", "t", "h", "}", "{", "1", "p", "t", "}">> (* "\\noindent\\rule[0.5ex]{\\linewidth}{1pt}" *))

\* if math_equation_present: restore the math spans
escape_restore_math(line, original_content) ==
  IF math_present(line) THEN restore(line, math_contents(line), original_content)
  ELSE line

\* if inline_code_present: restore the inline code spans
escape_restore_inline(line, original_content_inline) ==
  IF inline_present(line)
  THEN restore(line, inline_contents(line), original_content_inline)
  ELSE line

\* if replace_underscore: line = line.replace("_", "\_"); escaped is the
\* line after the escapes, math_restored the line after the math branch
escape_underscore(escaped, math_restored, line) ==
  IF ~math_present(escaped) /\ ~inline_present(math_restored)
  THEN replace(line, <<"_">>, <<"\\", "_">>) ELSE line

escape_inline(escaped, math_restored, original_content_inline) ==
  escape_underscore(escaped, math_restored,
                    escape_restore_inline(math_restored, original_content_inline))

escape_math(escaped, line0) ==
  escape_inline(escaped, escape_restore_math(escaped, math_contents(line0)),
                inline_contents(line0))

handle_special_characters(line0) == escape_math(escape_specials(line0), line0)
(***************************************************************************)
(* What a recognizer returns.  The recognizers are declared to return a    *)
(* tuple (line, lines_to_skip, matched); one that falls off the end of its *)
(* scan returns Python's None, and one that indexes past the end of a list *)
(* raises.  skip lists hold 0-based line indices, as in the code.          *)
(***************************************************************************)
Ret3(line, skip, flag) ==
  [exc |-> "", none |-> FALSE, line |-> line, skip |-> skip, flag |-> flag]

NoneReturned ==
  [exc |-> "", none |-> TRUE, line |-> <<>>, skip |-> <<>>, flag |-> FALSE]

Raised(e) ==
  [exc |-> e, none |-> FALSE, line |-> <<>>, skip |-> <<>>, flag |-> FALSE]

\* lines[i] for a 0-based i
at(lines_, i) == lines_[i + 1]

\* lines[a:b] for 0-based a <= b
slice(lines_, a, b) == SubSeq(lines_, a + 1, b)

Digits == {"0", "1", "2", "3", "4", "5", "6", "7", "8", "9"}

LowerCase == <<"a", "b", "c", "d", "e", "f", "g", "h", "i", "j", "k", "l", "m",
               "n", "o", "p", "q", "r", "s", "t", "u", "v", "w", "x", "y", "z">>
UpperCase == <<"A", "B", "C", "D", "E", "F", "G", "H", "I", "J", "K", "L", "M",
               "N", "O", "P", "Q", "R", "S", "T", "U", "V", "W", "X", "Y", "Z">>

is_lower(c) == \E i \in 1..Len(LowerCase) : LowerCase[i] = c
is_upper(c) == \E i \in 1..Len(UpperCase) : UpperCase[i] = c
is_cased(c) == is_lower(c) \/ is_upper(c)

\* c.upper() and c.lower() of one character
upper_char(c) ==
  IF is_lower(c) THEN UpperCase[CHOOSE i \in 1..Len(LowerCase) : LowerCase[i] = c] ELSE c
lower_char(c) ==
  IF is_upper(c) THEN LowerCase[CHOOSE i \in 1..Len(UpperCase) : UpperCase[i] = c] ELSE c

\* s.lower()
lower(s) == [i \in 1..Len(s) |-> lower_char(s[i])]

\* s.title(): a cased character is upper-cased when the character before it
\* is not cased, and lower-cased otherwise
title(s) ==
  [i \in 1..Len(s) |->
     IF i = 1 \/ ~is_cased(s[i - 1]) THEN upper_char(s[i]) ELSE lower_char(s[i])]

(***************************************************************************)
(* The configuration (config/note_configs.yaml), read once at import.      *)
(***************************************************************************)
CONFIG_indent == 4
CONFIG_supported_media == << <<".", "m", "d">>, <<".", "p", "n", "g">>, <<".", "j", "p", "g">>, <<".", "c", "s", "v">> >>
CONFIG_code_label == TRUE
CONFIG_code_frame_rule == <<"0", ".", "5", "p", "t">>
CONFIG_code_font_family == <<"t", "t">>

(***************************************************************************)
(* Title derivation.                                                       *)
(***************************************************************************)
RECURSIVE keep_parts(_)
keep_parts(parts) ==
  IF parts = <<>> THEN <<>>
  ELSE IF Head(parts) \in {<<>>, <<".">>} THEN keep_parts(Tail(parts))
  ELSE <<Head(parts)>> \o keep_parts(Tail(parts))

\* str(pathlib.Path(p).as_posix()) on a POSIX system: empty and "." components
\* are dropped, an empty path is "."
as_posix(p) ==
  LET parts == keep_parts(split(p, <<"/">>))
      root == IF startswith(p, <<"/">>) THEN <<"/">> ELSE <<>>
  IN  IF parts = <<>> /\ root = <<>> THEN <<".">>
      ELSE root \o join(<<"/">>, parts)

\* The title before capitalisation.
note_file_title(note_path) ==
  LET parts == split(as_posix(note_path), <<"/">>)
      t == replace(parts[Len(parts)], <<"_">>, <<" ">>)
  IN  IF endswith(t, <<".", "t", "x", "t">>) THEN replace(t, <<".", "t", "x", "t">>, <<>>)
      ELSE IF endswith(t, <<".", "m", "d">>) THEN replace(t, <<".", "m", "d">>, <<>>)
      ELSE t

extract_note_title(note_path, cap_words) ==
  IF cap_words THEN title(note_file_title(note_path)) ELSE note_file_title(note_path)

(***************************************************************************)
(* Heading recognizer.                                                     *)
(***************************************************************************)
\* The sectioning command of each heading level.
header_command(n) ==
  CASE n = 1 -> <<"\\", "s", "e", "c", "t", "i", "o", "n", "{">> (* "\\section{" *)
    [] n = 2 -> <<"\\", "s", "u", "b", "s", "e", "c", "t", "i", "o", "n", "{">> (* "\\subsection{" *)
    [] n = 3 -> <<"\\", "s", "u", "b", "s", "u", "b", "s", "e", "c", "t", "i", "o", "n", "{">> (* "\\subsubsection{" *)
    [] n = 4 -> <<"\\", "m", "y", "p", "a", "r", "a", "g", "r", "a", "p", "h", "{">> (* "\\myparagraph{" *)
    [] n = 5 -> <<"\\", "m", "y", "s", "u", "b", "p", "a", "r", "a", "g", "r", "a", "p", "h", "{">> (* "\\mysubparagraph{" *)

\* The heading of level n made from the line stripped of leading white space:
\* f"\\section{{{lstrip_line_space.replace('# ', '')}}}".replace("\n", "") + "\n"
header_line(n, lstrip_line_space) ==
  replace(header_command(n)
            \o replace(lstrip_line_space, times(<<"#">>, n) \o <<" ">>, <<>>)
            \o <<"}">>,
          <<"\n">>, <<>>) \o <<"\n">>

replace_md_headers(line) ==
  LET lstrip_line_space == lstrip(line)
      lstrip_line_hashtag == lstrip_chars(line, {"#"})
      count_lead_hashtags == Len(line) - Len(lstrip_line_hashtag)
  IN  IF ~startswith(lstrip_line_space, <<"#">>) THEN Ret3(line, <<>>, FALSE)
      ELSE IF lstrip_line_hashtag = <<>> THEN Raised("IndexError")
      ELSE IF lstrip_line_hashtag[1] = " " /\ count_lead_hashtags \in 1..5
      THEN Ret3(header_line(count_lead_hashtags, lstrip_line_space), <<>>, TRUE)
      ELSE Ret3(line, <<>>, FALSE)

(***************************************************************************)
(* Math block recognizer.                                                  *)
(***************************************************************************)
keep_math(line, current_line_idx, lines_) ==
  LET lsline == lstrip(line)
      closers == { j \in (current_line_idx + 1)..(Len(lines_) - 1) :
                     contains(lstrip(at(lines_, j)), <<"$", "$">>) }
      j == Least(closers)
  IN  IF startswith(lsline, <<"$", "$">>) /\ count(lsline, <<"$", "$">>) = 1
      THEN IF closers = {} THEN NoneReturned
           ELSE Ret3(concat(slice(lines_, current_line_idx, j + 1)),
                     range(current_line_idx + 1, j + 1), TRUE)
      ELSE Ret3(line, <<>>, FALSE)

(***************************************************************************)
(* Fenced code block recognizer.                                           *)
(***************************************************************************)
convert_to_latex_code(line, language) ==
  LET python3 == IF lower(language) = <<"p", "y", "t", "h", "o", "n">> (* "python" *) THEN <<"t", "r", "u", "e">> ELSE <<"f", "a", "l", "s", "e">>
      label == IF CONFIG_code_label THEN language ELSE <<"n", "o", "n", "e">>
  IN  IF language # <<>> /\ lower(language) # <<"p", "l", "a", "i", "n", "t", "e", "x", "t">> (* "plaintext" *)
      THEN <<"\n", "\\", "b", "e", "g", "i", "n", "{", "m", "i", "n", "t", "e", "d", "}", "[", "\n", "f", "r", "a", "m", "e", "=", "l", "i", "n", "e", "s", ",", "\n", "f", "r", "a", "m", "e", "s", "e", "p", "=", "2", "m", "m", ",", "\n", "l", "a", "b", "e", "l", "=">> (* "\n\\begin{minted}[\nframe=lines,\nframesep=2mm,\nlabel=" *) \o label
           \o <<",", "\n", "f", "r", "a", "m", "e", "r", "u", "l", "e", "=">> (* ",\nframerule=" *) \o CONFIG_code_frame_rule
           \o <<",", "\n", "p", "y", "t", "h", "o", "n", "3", "=">> (* ",\npython3=" *) \o python3
           \o <<",", "\n", "b", "a", "s", "e", "l", "i", "n", "e", "s", "t", "r", "e", "t", "c", "h", "=", "1", ".", "2", ",", "\n", "b", "r", "e", "a", "k", "l", "i", "n", "e", "s", "=", "t", "r", "u", "e", ",", "\n", "b", "g", "c", "o", "l", "o", "r", "=", "L", "i", "g", "h", "t", "G", "r", "a", "y", ",", "\n", "f", "o", "n", "t", "s", "i", "z", "e", "=", "\\", "f", "o", "o", "t", "n", "o", "t", "e", "s", "i", "z", "e", ",", "\n", "f", "o", "n", "t", "f", "a", "m", "i", "l", "y", "=">> (* ",\nbaselinestretch=1.2,\nbreaklines=true,\nbgcolor=LightGray,\nfontsize=\\footnotesize,\nfontfamily=" *)
           \o CONFIG_code_font_family
           \o <<",", "\n", "l", "i", "n", "e", "n", "o", "s", "\n", "]", "{">> (* ",\nlinenos\n]{" *) \o language \o <<"}", "\n">> \o line
           \o <<"\n", "\\", "e", "n", "d", "{", "m", "i", "n", "t", "e", "d", "}", "\n", " ", " ", " ", " ", " ", " ", " ", " ", " ", " ", " ", " ">> (* "\n\\end{minted}\n            " *)
      ELSE <<"\n", "\\", "b", "e", "g", "i", "n", "{", "m", "i", "n", "t", "e", "d", "}", "[", "\n", "f", "r", "a", "m", "e", "=", "l", "i", "n", "e", "s", ",", "\n", "f", "r", "a", "m", "e", "s", "e", "p", "=", "2", "m", "m", ",", "\n", "b", "a", "s", "e", "l", "i", "n", "e", "s", "t", "r", "e", "t", "c", "h", "=", "1", ".", "2", ",", "\n", "f", "r", "a", "m", "e", "r", "u", "l", "e", "=">> (* "\n\\begin{minted}[\nframe=lines,\nframesep=2mm,\nbaselinestretch=1.2,\nframerule=" *)
           \o CONFIG_code_frame_rule
           \o <<",", "\n", "f", "o", "n", "t", "f", "a", "m", "i", "l", "y", "=">> (* ",\nfontfamily=" *) \o CONFIG_code_font_family
           \o <<",", "\n", "b", "r", "e", "a", "k", "l", "i", "n", "e", "s", "=", "t", "r", "u", "e", ",", "\n", "b", "g", "c", "o", "l", "o", "r", "=", "L", "i", "g", "h", "t", "G", "r", "a", "y", ",", "\n", "f", "o", "n", "t", "s", "i", "z", "e", "=", "\\", "f", "o", "o", "t", "n", "o", "t", "e", "s", "i", "z", "e", ",", "\n", "l", "i", "n", "e", "n", "o", "s", "\n", "]", "{", "t", "e", "x", "t", "}", "\n">> (* ",\nbreaklines=true,\nbgcolor=LightGray,\nfontsize=\\footnotesize,\nlinenos\n]{text}\n" *)
           \o line
           \o <<"\n", "\\", "e", "n", "d", "{", "m", "i", "n", "t", "e", "d", "}", "\n", " ", " ", " ", " ", " ", " ", " ", " ", " ", " ", " ", " ">> (* "\n\\end{minted}\n            " *)

\* A code block whose lines had their underscores escaped.
code_body_escaped(s) == replace(SubSeq(s, 1, Len(s) - 1), <<"_">>, <<"\\", "_">>)

\* line[: line.rfind("\n")]: without a newline rfind is -1 and the slice drops
\* the last character
cut_last_newline(s) ==
  IF rfind(s, <<"\n">>) = 0 THEN SubSeq(s, 1, Len(s) - 1)
  ELSE SubSeq(s, 1, rfind(s, <<"\n">>) - 1)

replace_md_code_block(line, current_line_idx, lines_) ==
  LET lsline == lstrip(line)
      language == replace(replace(replace(lsline, <<"BACKTICK", "BACKTICK", "BACKTICK">>, <<>>), <<" ">>, <<>>),
                          <<"\n">>, <<>>)
      code_start_line == current_line_idx + 1
      fences == { j \in (current_line_idx + 1)..(Len(lines_) - 1) :
                    startswith(lstrip(at(lines_, j)), <<"BACKTICK", "BACKTICK", "BACKTICK">>) }
      j == Least(fences)
  IN  IF startswith(lsline, <<"BACKTICK", "BACKTICK", "BACKTICK">>)
      THEN IF fences = {} THEN NoneReturned
           ELSE Ret3(convert_to_latex_code(
                       cut_last_newline(concat(slice(lines_, code_start_line, j))),
                       language),
                     range(code_start_line, j + 1), TRUE)
      ELSE Ret3(line, <<>>, FALSE)

(***************************************************************************)
(* Bullet list recognizer.                                                 *)
(***************************************************************************)
BEGIN_ITEMIZE == <<"\\", "b", "e", "g", "i", "n", "{", "i", "t", "e", "m", "i", "z", "e", "}", "\n">> (* "\\begin{itemize}\n" *)
END_ITEMIZE == <<"\\", "e", "n", "d", "{", "i", "t", "e", "m", "i", "z", "e", "}", "\n">> (* "\\end{itemize}\n" *)
ITEM == <<"\\", "i", "t", "e", "m", " ">> (* "\\item " *)

\* The value of space_diff before any later bullet line was seen (None).
NoSpaceDiff == -1

\* The indentation of a later line of the list, in columns: a tab counts
\* as CONFIG["indent"] columns.
bullet_space_diff(line_after_line, indent) ==
  IF startswith(line_after_line, <<"\t">>)
  THEN (Len(line_after_line) - Len(lstrip_chars(line_after_line, {"\t"}))) * indent
  ELSE Len(line_after_line) - Len(lstrip(line_after_line))

\* "\\item " + line_after_line.lstrip("- ") + "\n", tabs stripped first
bullet_item(line_after_line) ==
  ITEM \o lstrip_chars(IF startswith(line_after_line, <<"\t">>)
                       THEN lstrip_chars(line_after_line, {"\t"})
                       ELSE line_after_line, {"-", " "})
       \o <<"\n">>

\* The accumulated list after a later bullet line at indentation space_diff.
bullet_grow(line, item, space_diff, pre_space_diff, indent) ==
  IF space_diff = pre_space_diff THEN line \o item
  ELSE IF space_diff > pre_space_diff THEN line \o BEGIN_ITEMIZE \o item
  ELSE line \o times(END_ITEMIZE, (pre_space_diff - space_diff) \div indent) \o item

RECURSIVE bullet_scan(_, _, _, _, _, _, _)
\* A loop body that also marks the line that ends the list as consumed.
bullet_line_closer_skipped(lines_, i, line, pre_space_diff, space_diff, skip, indent, line_after_line, new_diff) ==
  IF startswith(lstrip(line_after_line), <<"-">>)
  THEN IF i = Len(lines_) - 1
       THEN Ret3(bullet_grow(line, bullet_item(line_after_line), new_diff,
                             pre_space_diff, indent)
                   \o END_ITEMIZE \o times(END_ITEMIZE, new_diff \div indent),
                 Append(skip, i), TRUE)
       ELSE bullet_scan(lines_, i + 1,
                        bullet_grow(line, bullet_item(line_after_line), new_diff,
                                    pre_space_diff, indent),
                        new_diff, new_diff, Append(skip, i), indent)
  ELSE Ret3(line \o END_ITEMIZE
              \o times(END_ITEMIZE,
                       (IF space_diff # NoSpaceDiff /\ space_diff # 0
                        THEN space_diff ELSE pre_space_diff) \div indent),
            Append(skip, i), TRUE)

\* The body of the for loop for the line at index i, already styled.
bullet_line(lines_, i, line, pre_space_diff, space_diff, skip, indent, line_after_line, new_diff) ==
  IF startswith(lstrip(line_after_line), <<"-">>)
  THEN IF i = Len(lines_) - 1
       THEN Ret3(bullet_grow(line, bullet_item(line_after_line), new_diff,
                             pre_space_diff, indent)
                   \o END_ITEMIZE \o times(END_ITEMIZE, new_diff \div indent),
                 Append(skip, i), TRUE)
       ELSE bullet_scan(lines_, i + 1,
                        bullet_grow(line, bullet_item(line_after_line), new_diff,
                                    pre_space_diff, indent),
                        new_diff, new_diff, Append(skip, i), indent)
  ELSE Ret3(line \o END_ITEMIZE
              \o times(END_ITEMIZE,
                       (IF space_diff # NoSpaceDiff /\ space_diff # 0
                        THEN space_diff ELSE pre_space_diff) \div indent),
            skip, TRUE)

bullet_styled(lines_, i, line, pre_space_diff, space_diff, skip, indent, line_after_line) ==
  bullet_line(lines_, i, line, pre_space_diff, space_diff, skip, indent,
              line_after_line, bullet_space_diff(line_after_line, indent))

\* The for loop of replace_md_bullet_point from the line at index i on.
bullet_scan(lines_, i, line, pre_space_diff, space_diff, skip, indent) ==
  IF i >= Len(lines_) THEN NoneReturned
  ELSE bullet_styled(lines_, i, line, pre_space_diff, space_diff, skip, indent,
                     replace_text_style(at(lines_, i)))

replace_md_bullet_point(line, current_line_idx, lines_, indent) ==
  LET lsline == lstrip(line)
      pre_space_diff == Len(line) - Len(lsline)
  IN  IF startswith(lsline, <<"-">>)
      THEN bullet_scan(lines_, current_line_idx + 1,
                       BEGIN_ITEMIZE \o ITEM \o lstrip_chars(line, {"-", " "}),
                       pre_space_diff, NoSpaceDiff, <<>>, indent)
      ELSE Ret3(line, <<>>, FALSE)

(***************************************************************************)
(* Table recognizer.                                                       *)
(***************************************************************************)
RECURSIVE table_run(_, _)
\* How many consecutive lines from the 0-based index i on start with "|".
table_run(lines_, i) ==
  IF i < Len(lines_) /\ startswith(at(lines_, i), <<"|">>)
  THEN 1 + table_run(lines_, i + 1) ELSE 0

\* all(["---" in i for i in line_splitted[1:-1]])
bool_md_separation(line_splitted) ==
  \A c \in 2..(Len(line_splitted) - 1) : contains(line_splitted[c], <<"-", "-", "-">>)

RECURSIVE table_cells(_, _, _)
\* for col in range(num_cols + 1), from col on; <<"IndexError">> marks
\* line_splitted[col] past the end of the list
table_cells(line_splitted, num_cols, col) ==
  IF col > num_cols THEN [exc |-> "", text |-> <<>>]
  ELSE IF col >= Len(line_splitted) THEN [exc |-> "IndexError", text |-> <<>>]
  ELSE LET rest == table_cells(line_splitted, num_cols, col + 1)
       IN  [exc |-> rest.exc,
            text |-> strip(line_splitted[col + 1])
                       \o (IF col \notin {0, num_cols} THEN <<" ", "&", " ">> ELSE <<>>)
                       \o rest.text]

RECURSIVE table_rows(_, _, _, _)
\* for row in range(current_line_idx, current_line_idx + num_rows - 1), from row on
table_rows(lines_, num_cols, row, last) ==
  IF row > last THEN [exc |-> "", text |-> <<>>]
  ELSE LET line_splitted == split(at(lines_, row), <<"|">>)
           cells == table_cells(line_splitted, num_cols, 0)
           rest == table_rows(lines_, num_cols, row + 1, last)
       IN  IF bool_md_separation(line_splitted) THEN rest
           ELSE IF cells.exc # "" THEN cells
           ELSE [exc |-> rest.exc, text |-> cells.text \o <<"\\", "\\", " ", "\\", "h", "l", "i", "n", "e", "\n">> (* "\\\\ \\hline\n" *) \o rest.text]

convert_to_latex_table(line, current_line_idx, lines_) ==
  LET num_cols == count(line, <<"|">>) - 1
      num_rows == 1 + table_run(lines_, current_line_idx)
      rows == table_rows(lines_, num_cols, current_line_idx,
                         current_line_idx + num_rows - 2)
  IN  IF startswith(line, <<"|">>)
      THEN IF rows.exc # "" THEN Raised(rows.exc)
           ELSE Ret3(<<"\\", "b", "e", "g", "i", "n", "{", "t", "a", "b", "u", "l", "a", "r", "}", "{", "|">> (* "\\begin{tabular}{|" *) \o times(<<"c", "|">>, num_cols) \o <<"}", "\n">>
                       \o <<"\\", "h", "l", "i", "n", "e", "\n">> (* "\\hline\n" *) \o rows.text \o <<"\\", "e", "n", "d", "{", "t", "a", "b", "u", "l", "a", "r", "}", "\n">> (* "\\end{tabular}\n" *),
                     range(current_line_idx + 1, current_line_idx + num_rows - 1), TRUE)
      ELSE Ret3(line, <<>>, FALSE)

(***************************************************************************)
(* Footnote resolver.                                                      *)
(***************************************************************************)
RECURSIVE footnote_markers_from(_, _)
footnote_markers_from(s, from) ==
  LET i == find(s, <<"[", "^">>, from)
      b == i + 2
      stops == { k \in b..Len(s) : s[k] \notin Digits }
      e == IF stops = {} THEN Len(s) + 1 ELSE Least(stops)
  IN  IF i = 0 THEN <<>>
      ELSE IF e > b /\ e <= Len(s) /\ s[e] = "]"
      THEN << SubSeq(s, b, e - 1) >> \o footnote_markers_from(s, e + 1)
      ELSE footnote_markers_from(s, i + 1)

\* re.findall(r"\[\^(\d+)\]", line)
footnote_markers(line) == footnote_markers_from(line, 1)

RECURSIVE footnote_loop(_, _, _, _, _)
\* for footnote in footnotes
footnote_loop(line, footnotes, lines_, current_line_idx, skip) ==
  IF footnotes = <<>> THEN [line |-> line, skip |-> skip]
  ELSE
    LET footnote == Head(footnotes)
        foot_note_in_line == <<"[", "^">> \o footnote \o <<"]">>
        check_text == foot_note_in_line \o <<":">>
        defs == { j \in (current_line_idx + 1)..(Len(lines_) - 1) :
                    contains(at(lines_, j), check_text) }
        j == Least(defs)
        footnote_definition == lstrip(lstrip_chars(at(lines_, j), Elems(check_text)))
    IN  IF defs = {}
        THEN footnote_loop(line, Tail(footnotes), lines_, current_line_idx, skip)
        ELSE footnote_loop(
               replace(line, foot_note_in_line,
                       <<"\\", "f", "o", "o", "t", "n", "o", "t", "e", "[">> (* "\\footnote[" *) \o footnote \o <<"]", "{">>
                         \o footnote_definition \o <<"}">>),
               Tail(footnotes), lines_, current_line_idx, Append(skip, j))

find_replace_footnotes(line, lines_, current_line_idx) ==
  footnote_loop(line, footnote_markers(line), lines_, current_line_idx, <<>>)

(***************************************************************************)
(* Media discovery and the link resolver.  files is the set of file names  *)
(* under the working directory.                                            *)
(***************************************************************************)
Found(path) == [exc |-> "", found |-> TRUE, path |-> path]
NotFound == [exc |-> "", found |-> FALSE, path |-> <<>>]
LookupRaised(e) == [exc |-> e, found |-> FALSE, path |-> <<>>]

get_media_path(media_name, files) ==
  IF ~\E k \in 1..Len(CONFIG_supported_media) :
         endswith(media_name, CONFIG_supported_media[k])
  THEN LookupRaised("MediaUnsupportedError")
  ELSE IF media_name \in files THEN Found(<<".", "/">> \o media_name)
  ELSE NotFound

RECURSIVE try_media_types(_, _, _)
\* for media_type in accepted_media_types, from the k-th type on
try_media_types(link, k, files) ==
  IF k > Len(CONFIG_supported_media) THEN NotFound
  ELSE
    LET link_file ==
          IF \E t \in 1..Len(CONFIG_supported_media) :
                 contains(link, CONFIG_supported_media[t])
          THEN link ELSE link \o CONFIG_supported_media[k]
        actual_path == get_media_path(link_file, files)
    IN  IF actual_path.exc # "" \/ actual_path.found THEN actual_path
        ELSE try_media_types(link, k + 1, files)

RECURSIVE linked_notes_loop(_, _)
\* for link in links
linked_notes_loop(links, files) ==
  IF links = <<>> THEN [exc |-> "", paths |-> <<>>]
  ELSE
    LET r == try_media_types(split(Head(links), <<"|">>)[1], 1, files)
    IN  IF r.exc # "" THEN [exc |-> r.exc, paths |-> <<>>]
        ELSE IF r.found THEN [exc |-> "", paths |-> << r.path >>]
        ELSE linked_notes_loop(Tail(links), files)

check_for_linked_notes(line, files) ==
  linked_notes_loop(findall(line, <<"[", "[">>, <<"]", "]">>, 0), files)

\* A cross-reference whose anchor is made from the whole text between the
\* brackets, alias included.
link_reference_whole(link) ==
  <<"\\", "h", "y", "p", "e", "r", "r", "e", "f", "[", "c", "h", ":">> (* "\\hyperref[ch:" *) \o extract_note_title(link, TRUE) \o <<"]", "{">>
    \o lstrip(split(link, <<"|">>)[Len(split(link, <<"|">>))]) \o <<"}">>

\* The cross-reference that replaces [[link]].
link_reference(link) ==
  LET parts == split(link, <<"|">>)
      alias_idx == IF count(link, <<"|">>) <= 1 THEN Len(parts) ELSE 2
      split_link_file == extract_note_title(parts[1], TRUE)
      split_link_alias == lstrip(parts[alias_idx])
  IN  <<"\\", "h", "y", "p", "e", "r", "r", "e", "f", "[", "c", "h", ":">> (* "\\hyperref[ch:" *) \o split_link_file \o <<"]", "{">> \o split_link_alias \o <<"}">>

RECURSIVE resolve_links(_, _)
\* for link in links: line = line.replace(f"[[{link}]]", split_link)
resolve_links(line, links) ==
  IF links = <<>> THEN line
  ELSE resolve_links(
         replace(line, <<"[", "[">> \o Head(links) \o <<"]", "]">>, link_reference(Head(links))),
         Tail(links))

_include_graphic(file_path, img_width) ==
  <<"\\", "b", "e", "g", "i", "n", "{", "f", "i", "g", "u", "r", "e", "}", "[", "H", "]", "\\", "c", "e", "n", "t", "e", "r", "i", "n", "g", "\n", "\t", "\\", "i", "n", "c", "l", "u", "d", "e", "g", "r", "a", "p", "h", "i", "c", "s", "[", "w", "i", "d", "t", "h", "=">> (* "\\begin{figure}[H]\\centering\n\t\\includegraphics[width=" *) \o img_width
    \o <<"\\", "l", "i", "n", "e", "w", "i", "d", "t", "h", "]", "{", "\"">> (* "\\linewidth]{\"" *) \o as_posix(file_path) \o <<"\"", "}", "\n", "\\", "e", "n", "d", "{", "f", "i", "g", "u", "r", "e", "}">> (* "\"}\n\\end{figure}" *)

(***************************************************************************)
(* Block quote / callout recognizer.                                       *)
(***************************************************************************)
RECURSIVE quote_run(_, _)
\* How many consecutive lines from the 0-based index i on start with ">"
\* after stripping leading white space.
quote_run(lines_, i) ==
  IF i < Len(lines_) /\ startswith(lstrip(at(lines_, i)), <<">">>)
  THEN 1 + quote_run(lines_, i + 1) ELSE 0

\* handle_special_characters(replace_text_style(text.lstrip(">").lstrip() + tail))
quote_text(text, tail) ==
  handle_special_characters(
    replace_text_style(lstrip(lstrip_chars(text, {">"})) \o tail))

RECURSIVE quote_body(_, _, _)
\* for idx_blocks in lines_to_skip[1:]
quote_body(lines_, i, last) ==
  IF i > last THEN <<>>
  ELSE quote_text(at(lines_, i), <<"\n">>) \o quote_body(lines_, i + 1, last)

convert_callouts_block_text(current_line_idx, note_content) ==
  LET line == at(note_content, current_line_idx)
      counter == 1 + quote_run(note_content, current_line_idx + 1)
      tags == findall(line, <<"[", "!">>, <<"]">>, 0)
      txt_to_replace == IF tags = <<>> THEN <<>> ELSE tags[1]
      opening ==
        IF tags # <<>>
        THEN <<"\\", "b", "e", "g", "i", "n", "{", "t", "c", "o", "l", "o", "r", "b", "o", "x", "}", "[", "t", "i", "t", "l", "e", "=">> (* "\\begin{tcolorbox}[title=" *)
               \o quote_text(replace(line, <<"[", "!">> \o txt_to_replace \o <<"]">>, <<>>), <<>>)
               \o <<"]", "\n">>
        ELSE <<"\\", "b", "e", "g", "i", "n", "{", "a", "d", "v", "t", "c", "o", "l", "o", "r", "b", "o", "x", "}", "\n">> (* "\\begin{advtcolorbox}\n" *) \o quote_text(line, <<"\n">>)
      closing == IF Len(txt_to_replace) > 0 THEN <<"\\", "e", "n", "d", "{", "t", "c", "o", "l", "o", "r", "b", "o", "x", "}", "\n">> (* "\\end{tcolorbox}\n" *)
                 ELSE <<"\\", "e", "n", "d", "{", "a", "d", "v", "t", "c", "o", "l", "o", "r", "b", "o", "x", "}", "\n">> (* "\\end{advtcolorbox}\n" *)
  IN  IF startswith(lstrip(line), <<">">>)
      THEN [line |-> opening
                       \o quote_body(note_content, current_line_idx + 1,
                                     current_line_idx + counter - 1)
                       \o closing,
            skip |-> range(current_line_idx, current_line_idx + counter)]
      ELSE [line |-> line, skip |-> <<>>]

(***************************************************************************)
(* The general conversion routine and the dispatcher.  Their result holds  *)
(* the rewritten line, the lines to skip, the follow-on references and the *)
(* note's lines as the call leaves them.                                   *)
(***************************************************************************)
Out(line, skip, notes, content) ==
  [exc |-> "", line |-> line, skip |-> skip, notes |-> notes, content |-> content]

OutRaised(e, content) ==
  [exc |-> e, line |-> <<>>, skip |-> <<>>, notes |-> <<>>, content |-> content]

\* Unpacking what a recognizer returned: None cannot be unpacked.
unpack_exc(r) == IF r.exc # "" THEN r.exc ELSE IF r.none THEN "TypeError" ELSE ""

\* The end of the routine, from the result of the bullet list recognizer on.
routine_bullet(bullet, skip, current_line_idx, note_content, additional_notes) ==
  IF unpack_exc(bullet) # "" THEN OutRaised(unpack_exc(bullet), note_content)
  ELSE IF bullet.flag
  THEN Out(bullet.line, skip \o bullet.skip, additional_notes, note_content)
  ELSE Out(lstrip(bullet.line), skip \o bullet.skip, additional_notes, note_content)

\* ... from the result of the code block recognizer on.
routine_code(code, skip, current_line_idx, note_content, additional_notes) ==
  IF unpack_exc(code) # "" THEN OutRaised(unpack_exc(code), note_content)
  ELSE IF code.flag
  THEN Out(code.line, skip \o code.skip, additional_notes, note_content)
  ELSE routine_bullet(
         replace_md_bullet_point(code.line, current_line_idx, note_content,
                                 CONFIG_indent),
         skip \o code.skip, current_line_idx, note_content, additional_notes)

\* ... from the escaped line on: a heading returns here.
routine_escaped(escaped, is_header, skip, current_line_idx, note_content, additional_notes) ==
  IF is_header THEN Out(escaped, skip, additional_notes, note_content)
  ELSE routine_code(replace_md_code_block(escaped, current_line_idx, note_content),
                    skip, current_line_idx, note_content, additional_notes)

\* ... from the result of the footnote resolver on: a math block returns here.
routine_foot(foot, math, is_header, current_line_idx, note_content, additional_notes) ==
  IF math.flag
  THEN Out(foot.line, math.skip \o foot.skip, additional_notes, note_content)
  ELSE routine_escaped(handle_special_characters(foot.line), is_header,
                       math.skip \o foot.skip, current_line_idx, note_content,
                       additional_notes)

\* ... from the result of the math block recognizer on.
routine_math(math, is_header, current_line_idx, note_content, additional_notes) ==
  IF unpack_exc(math) # "" THEN OutRaised(unpack_exc(math), note_content)
  ELSE routine_foot(find_replace_footnotes(math.line, note_content, current_line_idx),
                    math, is_header, current_line_idx, note_content,
                    additional_notes)

\* ... from the result of the heading recognizer on.
routine_header(hdr, current_line_idx, note_content, additional_notes) ==
  IF unpack_exc(hdr) # "" THEN OutRaised(unpack_exc(hdr), note_content)
  ELSE routine_math(keep_math(hdr.line, current_line_idx, note_content), hdr.flag,
                    current_line_idx, note_content, additional_notes)

apply_conversion_routine(line0, current_line_idx, note_content, additional_notes) ==
  routine_header(replace_md_headers(replace_text_style(line0)),
                 current_line_idx, note_content, additional_notes)

\* A front matter that always runs to the last line.
front_matter_last(note_content, i) == Len(note_content) - 1

RECURSIVE front_matter_end(_, _)
\* The 0-based index at which the front-matter scan stops: the first line
\* after line 0 that starts with "---", or the last line.
front_matter_end(note_content, i) ==
  IF i >= Len(note_content) - 1 THEN Len(note_content) - 1
  ELSE IF startswith(lstrip(at(note_content, i)), <<"-", "-", "-">>) THEN i
  ELSE front_matter_end(note_content, i + 1)

\* The line with its links rewritten, when the line links to something found.
linked_line(line, additional_notes) ==
  IF Len(additional_notes) > 0
  THEN resolve_links(line, findall(line, <<"[", "[">>, <<"]", "]">>, 0))
  ELSE line

\* note_content[current_line_idx] = line, in the same case
linked_content(note_content, current_line_idx, line, additional_notes) ==
  IF Len(additional_notes) > 0
  THEN [note_content EXCEPT ![current_line_idx + 1] = line]
  ELSE note_content

\* The end of the dispatcher, from the result of the block quote recognizer on.
transform_quote(quote, current_line_idx, note_content, additional_notes) ==
  IF Len(quote.skip) > 0
  THEN Out(quote.line, quote.skip, additional_notes, note_content)
  ELSE apply_conversion_routine(quote.line, current_line_idx, note_content,
                                additional_notes)

\* ... from the rewritten line and note on: a table returns here.
transform_resolved(table, line, current_line_idx, note_content, additional_notes) ==
  IF table.flag THEN Out(line, table.skip, additional_notes, note_content)
  ELSE transform_quote(convert_callouts_block_text(current_line_idx, note_content),
                       current_line_idx, note_content, additional_notes)

\* ... from the result of the link resolver on.
transform_linked(table, linked, line, current_line_idx, note_content) ==
  IF linked.exc # "" THEN OutRaised(linked.exc, note_content)
  ELSE transform_resolved(
         table, line, current_line_idx,
         linked_content(note_content, current_line_idx, line, linked.paths),
         linked.paths)

\* ... from the result of the table recognizer on: front matter returns here.
transform_table(table, current_line_idx, note_content, files) ==
  IF table.exc # "" THEN OutRaised(table.exc, note_content)
  ELSE IF startswith(lstrip(table.line), <<"-", "-", "-">>) /\ current_line_idx = 0
  THEN Out(<<>>,
           table.skip \o <<current_line_idx>>
             \o (IF Len(note_content) > 1
                 THEN range(1, front_matter_end(note_content, 1) + 1) ELSE <<>>),
           <<>>, note_content)
  ELSE transform_linked(
         table, check_for_linked_notes(table.line, files),
         linked_line(table.line, check_for_linked_notes(table.line, files).paths),
         current_line_idx, note_content)

_apply_transformation(line0, current_line_idx, note_content, files) ==
  IF \/ startswith(lstrip(line0), <<"%", "%">>)
     \/ startswith(lstrip(line0), <<">", "%", "%">>)
  THEN Out(<<>>, range(current_line_idx, Len(note_content)), <<>>, note_content)
  ELSE transform_table(convert_to_latex_table(line0, current_line_idx, note_content),
                       current_line_idx, note_content, files)
(***************************************************************************)
(* The Document Assembler: add_note(note_paths=...), one action per step   *)
(* of its loops.                                                           *)
(***************************************************************************)
\* self.img_width as the f-string prints it (the default, 1.5)
img_width_text == <<"1", ".", "5">>

\* The value of self.note_tex on a generator that never assigned it.
Unset == <<"unset">>

\* open(path): the file a relative path names in the working directory.
opened(path) == as_posix(path)

\* note_path if note_path.endswith(".md") else note_path + ".md"
with_md(note_path) ==
  IF endswith(note_path, <<".", "m", "d">>) THEN note_path ELSE note_path \o <<".", "m", "d">>

\* "\\chapter{" + note_title + "}\\label{ch:" + note_title + "}\n"
latex_chapter(note_title) ==
  <<"\\", "c", "h", "a", "p", "t", "e", "r", "{">> (* "\\chapter{" *) \o note_title \o <<"}", "\\", "l", "a", "b", "e", "l", "{", "c", "h", ":">> (* "}\\label{ch:" *) \o note_title \o <<"}", "\n">>

RECURSIVE embed_graphics(_, _)
\* for graphic in additional_notes: a ".png" reference replaces the last
\* fragment of the buffer by the figure markup
embed_graphics(buffer, additional_notes) ==
  IF additional_notes = <<>> THEN buffer
  ELSE embed_graphics(
         IF contains(Head(additional_notes), <<".", "p", "n", "g">>)
         THEN Append(SubSeq(buffer, 1, Len(buffer) - 1),
                     _include_graphic(Head(additional_notes), img_width_text))
         ELSE buffer,
         Tail(additional_notes))

\* [a_note for a_note in additional_notes if ".md" in a_note]
RECURSIVE additional_md_notes(_)
additional_md_notes(additional_notes) ==
  IF additional_notes = <<>> THEN <<>>
  ELSE (IF contains(Head(additional_notes), <<".", "m", "d">>)
        THEN <<Head(additional_notes)>> ELSE <<>>)
       \o additional_md_notes(Tail(additional_notes))

\* A worklist that gives up its last note, not its first.
pop_last(s, i) ==
  [item |-> s[Len(s)], rest |-> SubSeq(s, 1, Len(s) - 1)]

\* s.pop(i) for a 0-based i: the item taken and the list left
pop(s, i) ==
  [item |-> s[i + 1], rest |-> SubSeq(s, 1, i) \o SubSeq(s, i + 2, Len(s))]

\* A loop that skips nothing.
never_skipped(n, skip) == FALSE

\* ln in lines_to_skip
skipped(n, skip) == n \in Elems(skip)

\* How many notes add_note has taken from the worklist.
Popped == Cardinality({ i \in 1..Len(hist) : hist[i].op = "pop" })

\* add_note starts: a str argument becomes a one-element list and resets
\* self.note_tex; a list argument is taken as it is.
Start(v, a) ==
  /\ vault = v
  /\ args = a
  /\ pc = "pop"
  /\ note_paths = a.note_paths
  /\ tex = <<>>
  /\ lines = <<>>
  /\ ln = 0
  /\ lines_to_skip = <<>>
  /\ note_tex = IF a.is_str THEN <<>> ELSE Unset
  /\ exc = ""
  /\ hist = <<>>
  /\ call = [fn |-> "none"]
  /\ ret = [fn |-> "none"]

\* while len(note_paths) > 0: note_path = note_paths.pop(0); open it
PopNote ==
  /\ pc = "pop"
  /\ note_paths # <<>>
  /\ Popped < MaxPopped
  /\ LET note_path == with_md(pop(note_paths, 0).item)
         note_title == extract_note_title(note_path, TRUE)
         retrieved == get_media_path(note_path, DOMAIN vault)
         file == IF opened(note_path) \in DOMAIN vault THEN opened(note_path)
                 ELSE IF retrieved.found THEN opened(retrieved.path)
                 ELSE <<>>
     IN  /\ note_paths' = pop(note_paths, 0).rest
         /\ hist' = Append(hist, [op |-> "pop", path |-> note_path, ln |-> 0,
                                  skip |-> <<>>, notes |-> <<>>, line |-> <<>>,
                                  rest |-> pop(note_paths, 0).rest])
         /\ IF file = <<>>
            THEN /\ pc' = "raised"
                 /\ exc' = "FileNotFoundError"
                 /\ UNCHANGED <<tex, lines, ln, lines_to_skip>>
            ELSE /\ pc' = "line"
                 /\ lines' = vault[file]
                 /\ ln' = 0
                 /\ lines_to_skip' = <<>>
                 /\ tex' = IF args.use_chapters
                           THEN Append(tex, latex_chapter(note_title)) ELSE tex
                 /\ exc' = exc
  /\ UNCHANGED <<vault, args, note_tex, call, ret>>

\* if ln in lines_to_skip: continue
SkipLine ==
  /\ pc = "line"
  /\ ln < Len(lines)
  /\ skipped(ln, lines_to_skip)
  /\ ln' = ln + 1
  /\ hist' = Append(hist, [op |-> "continue", path |-> <<>>, ln |-> ln,
                           skip |-> <<>>, notes |-> <<>>, line |-> <<>>])
  /\ UNCHANGED <<vault, args, pc, note_paths, tex, lines, lines_to_skip, note_tex,
                 exc, call, ret>>

\* What the loop body does with the dispatcher's result r.
Dispatched(r) ==
  IF r.exc # ""
  THEN /\ pc' = "raised"
       /\ exc' = r.exc
       /\ hist' = Append(hist, [op |-> "raise", path |-> <<>>, ln |-> ln,
                                skip |-> <<>>, notes |-> <<>>, line |-> <<>>])
       /\ UNCHANGED <<note_paths, tex, lines, ln, lines_to_skip>>
  ELSE /\ lines' = r.content
       /\ lines_to_skip' = lines_to_skip \o r.skip
       /\ tex' = IF args.include_linked_notes
                 THEN embed_graphics(Append(tex, r.line), r.notes)
                 ELSE Append(tex, r.line)
       /\ note_paths' = IF args.include_linked_notes
                        THEN note_paths \o additional_md_notes(r.notes)
                        ELSE note_paths
       /\ ln' = ln + 1
       /\ hist' = Append(hist, [op |-> "dispatch", path |-> <<>>, ln |-> ln,
                                skip |-> r.skip, notes |-> r.notes,
                                line |-> r.line])
       /\ UNCHANGED <<pc, exc>>

\* The body of the for loop for a line that is not skipped.
DispatchLine ==
  /\ pc = "line"
  /\ ln < Len(lines)
  /\ ~skipped(ln, lines_to_skip)
  /\ Dispatched(_apply_transformation(at(lines, ln), ln, lines, DOMAIN vault))
  /\ UNCHANGED <<vault, args, note_tex, call, ret>>

\* The for loop is exhausted: back to the while loop.
EndNote ==
  /\ pc = "line"
  /\ ln = Len(lines)
  /\ pc' = "pop"
  /\ hist' = Append(hist, [op |-> "end", path |-> <<>>, ln |-> ln,
                           skip |-> <<>>, notes |-> <<>>, line |-> <<>>])
  /\ UNCHANGED <<vault, args, note_paths, tex, lines, ln, lines_to_skip, note_tex,
                 exc, call, ret>>

\* note = "\n".join(tex); self.note_tex += note
Combine ==
  /\ pc = "pop"
  /\ note_paths = <<>>
  /\ IF note_tex = Unset
     THEN /\ pc' = "raised"
          /\ exc' = "AttributeError"
          /\ UNCHANGED note_tex
     ELSE /\ pc' = "done"
          /\ note_tex' = note_tex \o join(<<"\n">>, tex)
          /\ UNCHANGED exc
  /\ UNCHANGED <<vault, args, note_paths, tex, lines, ln, lines_to_skip, hist,
                 call, ret>>

(***************************************************************************)
(* The notes add_note is run on.                                           *)
(***************************************************************************)
\* All notes of 1..n lines drawn from a set of lines.
NotesOver(line_set, n) == UNION { [1..k -> line_set] : k \in 1..n }

\* Lines of every construct that consumes more than its own line, without links.
StructLines ==
  { <<"-", " ", "a", "\n">>, <<"\t", "-", " ", "b", "\n">>, <<"x", "[", "^", "1", "]", "\n">> (* "x[^1]\n" *), <<"[", "^", "1", "]", ":", " ", "d", "\n">> (* "[^1]: d\n" *), <<"$", "$", "\n">>,
    <<"BACKTICK", "BACKTICK", "BACKTICK", "\n">>, <<">", " ", "q", "\n">>, <<"|", "a", "|", "\n">>, <<"-", "-", "-", "\n">>, <<"%", "%", "\n">> }

\* Lines with double-bracket links: to the notes b and c, to an image (alone and
\* within text), to nothing.
LinkLines ==
  { <<"[", "[", "b", "]", "]", "\n">> (* "[[b]]\n" *), <<"[", "[", "c", "|", "k", "]", "]", " ", "x", "\n">> (* "[[c|k]] x\n" *), <<"[", "[", "i", ".", "p", "n", "g", "]", "]", "\n">> (* "[[i.png]]\n" *), <<"t", " ", "[", "[", "n", "]", "]", "\n">> (* "t [[n]]\n" *),
    <<"t", " ", "[", "[", "i", ".", "p", "n", "g", "]", "]", " ", "u", "\n">> (* "t [[i.png]] u\n" *) }

\* The linked notes: b links to c and has a list with an image, c links to nothing.
NoteB == << <<"[", "[", "c", "]", "]", "\n">> (* "[[c]]\n" *), <<"-", " ", "p", " ", "[", "[", "i", ".", "p", "n", "g", "]", "]", "\n">> (* "- p [[i.png]]\n" *), <<"-", " ", "q", "\n">> >>
NoteC == << <<"u", "\n">> >>

\* Notes that link in a circle: e links to a; a links to itself or to e.
NoteE == << <<"[", "[", "a", "]", "]", "\n">> (* "[[a]]\n" *) >>
CycleNotes == { << <<"[", "[", "a", "]", "]", "\n">> (* "[[a]]\n" *) >>, << <<"[", "[", "e", "]", "]", "\n">> (* "[[e]]\n" *) >>, << <<"[", "[", "a", "]", "]", " ", "[", "[", "e", "]", "]", "\n">> (* "[[a]] [[e]]\n" *) >> }

\* Notes with two fenced code blocks: the lines of the first are text that the
\* stages outside a block would style, escape, resolve or open a list for.
CodeOpeners == { <<"BACKTICK", "BACKTICK", "BACKTICK", "\n">>, <<"BACKTICK", "BACKTICK", "BACKTICK", "p", "y", "\n">> (* "BACKTICKBACKTICKBACKTICKpy\n" *), <<" ", " ", "BACKTICK", "BACKTICK", "BACKTICK", " ", "p", "y", "\n">> (* "  BACKTICKBACKTICKBACKTICK py\n" *) }
CodeBodyLines == { <<"*", "*", "a", "*", "*", " ", "_", "b", "_", "\n">> (* "**a** _b_\n" *), <<"a", " ", "&", " ", "b", "_", "c", "\n">> (* "a & b_c\n" *), <<"[", "[", "b", "]", "]", "\n">> (* "[[b]]\n" *), <<"-", " ", "a", "\n">> }
CodeBodies == UNION { [1..k -> CodeBodyLines] : k \in 0..MaxBody }
CodeNotes ==
  { << o >> \o b \o << <<"BACKTICK", "BACKTICK", "BACKTICK", "\n">>, <<"BACKTICK", "BACKTICK", "BACKTICK", "\n">>, l, e >> :
      o \in CodeOpeners, b \in CodeBodies, l \in CodeBodyLines,
      e \in { <<"BACKTICK", "BACKTICK", "BACKTICK", "\n">>, <<"BACKTICK", "BACKTICK", "BACKTICK">> } }

\* A working directory whose note a.md has the given lines.
VaultOf(note_a) ==
  (<<"a", ".", "m", "d">> :> note_a) @@ (<<"b", ".", "m", "d">> :> NoteB) @@ (<<"c", ".", "m", "d">> :> NoteC)
    @@ (<<"i", ".", "p", "n", "g">> :> <<>>) @@ (<<"t", ".", "t", "x", "t">> :> NoteC) @@ (<<"e", ".", "m", "d">> :> NoteE)

StructArgs ==
  { [note_paths |-> << <<"a">> >>, is_str |-> TRUE, use_chapters |-> TRUE,
     include_linked_notes |-> TRUE] }

\* A single path (is_str) or a list of paths.
LinkArgs ==
  { [note_paths |-> << <<"a">> >>, is_str |-> s, use_chapters |-> u,
     include_linked_notes |-> i] : s \in BOOLEAN, u \in BOOLEAN, i \in BOOLEAN }
  \cup
  { [note_paths |-> << <<"a">>, <<"c">> >>, is_str |-> FALSE, use_chapters |-> u,
     include_linked_notes |-> i] : u \in BOOLEAN, i \in BOOLEAN }

\* Paths given with an extension: a.md and t.txt are files of the directory.
ExtArgs ==
  { [note_paths |-> << p >>, is_str |-> TRUE, use_chapters |-> TRUE,
     include_linked_notes |-> TRUE] : p \in { <<"a", ".", "m", "d">>, <<"t", ".", "t", "x", "t">>, <<"c">> } }

Init ==
  \/ \E n \in NotesOver(StructLines, MaxNoteLen), a \in StructArgs : Start(VaultOf(n), a)
  \/ \E n \in NotesOver(LinkLines, MaxNoteLen), a \in LinkArgs : Start(VaultOf(n), a)
  \/ \E n \in NotesOver(LinkLines, 1), a \in ExtArgs : Start(VaultOf(n), a)
  \/ \E n \in CycleNotes, a \in LinkArgs : Start(VaultOf(n), a)
  \/ \E n \in CodeNotes, a \in StructArgs : Start(VaultOf(n), a)

Next ==
  \/ PopNote
  \/ SkipLine
  \/ DispatchLine
  \/ EndNote
  \/ Combine

Spec == Init /\ [][Next]_vars


(***************************************************************************)
(* Calls of one function.  The state holds the call; the action of the     *)
(* function called leaves what it returned in ret.                         *)
(***************************************************************************)
Call(fn, lines_, idx, files) ==
  [fn |-> fn, lines |-> lines_, idx |-> idx, files |-> files]

CallStart(c) ==
  /\ call = c
  /\ ret = [fn |-> "none"]
  /\ pc = "call"
  /\ vault = [f \in c.files |-> <<>>]
  /\ args = [note_paths |-> <<>>, is_str |-> TRUE, use_chapters |-> TRUE,
             include_linked_notes |-> TRUE]
  /\ note_paths = <<>>
  /\ tex = <<>>
  /\ lines = c.lines
  /\ ln = c.idx
  /\ lines_to_skip = <<>>
  /\ note_tex = <<>>
  /\ exc = ""
  /\ hist = <<>>

\* The function called returns out.
Returned(out) ==
  /\ pc = "call"
  /\ ret' = [fn |-> call.fn, out |-> out]
  /\ pc' = "returned"
  /\ UNCHANGED <<vault, args, note_paths, tex, lines, ln, lines_to_skip, note_tex,
                 exc, hist, call>>

CallBulletPoint ==
  /\ call.fn = "replace_md_bullet_point"
  /\ Returned(replace_md_bullet_point(at(call.lines, call.idx), call.idx, call.lines,
     CONFIG_indent))

CallHeaders ==
  /\ call.fn = "replace_md_headers"
  /\ Returned(replace_md_headers(at(call.lines, call.idx)))

CallTable ==
  /\ call.fn = "convert_to_latex_table"
  /\ Returned(convert_to_latex_table(at(call.lines, call.idx), call.idx, call.lines))

CallConversionRoutine ==
  /\ call.fn = "apply_conversion_routine"
  /\ Returned(apply_conversion_routine(at(call.lines, call.idx), call.idx, call.lines,
     <<>>))

CallTransformation ==
  /\ call.fn = "_apply_transformation"
  /\ Returned(_apply_transformation(at(call.lines, call.idx), call.idx, call.lines,
     call.files))

CallSpecialCharacters ==
  /\ call.fn = "handle_special_characters"
  /\ Returned(handle_special_characters(at(call.lines, call.idx)))

(***************************************************************************)
(* The calls made.                                                         *)
(***************************************************************************)
\* What follows a block in a note: nothing, or a line of plain text.
Endings == { <<>>, << <<"x", "\n">> >> }

\* k lines, each the given line.
Repeat(line, k) == [i \in 1..k |-> line]

\* Flat lists of 1..MaxItems bullet lines with a common indent.
FlatLists ==
  { Repeat(ind \o <<"-", " ", "a", "\n">>, k) :
      ind \in { <<>>, <<" ", " ">>, <<" ", " ", " ", " ">>, <<"\t">> }, k \in 1..MaxItems }

\* An indent and the indent one step deeper, in spaces or in tabs.
IndentSteps ==
  { << <<>>, <<"\t">> >>, << <<>>, <<" ", " ", " ", " ">> >>, << <<" ", " ", " ", " ">>, <<" ", " ", " ", " ", " ", " ", " ", " ">> (* "        " *) >>,
    << <<"\t">>, <<"\t", "\t">> >> }

\* Lists that go one step deeper for 1..MaxItems-1 items and then come back
\* for c items.
NestedLists ==
  { << st[1] \o <<"-", " ", "a", "\n">> >> \o Repeat(st[2] \o <<"-", " ", "n", "\n">>, m)
      \o Repeat(st[1] \o <<"-", " ", "c", "\n">>, c) :
      st \in IndentSteps, m \in 1..(MaxItems - 1), c \in 0..1 }

\* Lists that open at indent 0 and go on with 1..MaxItems items whose indents
\* are multiples of the indent width, in any order.
LeveledLists ==
  { << <<"-", " ", "a", "\n">> >> \o [i \in 1..Len(ind) |-> ind[i] \o <<"-", " ", "b", "\n">>] :
      ind \in UNION { [1..k -> { <<>>, <<" ", " ", " ", " ">>, <<" ", " ", " ", " ", " ", " ", " ", " ">> (* "        " *), <<"\t", "\t">> }] :
                        k \in 1..MaxItems } }

BulletCalls ==
  { Call("replace_md_bullet_point", l \o e, 0, {}) :
      l \in FlatLists \cup NestedLists \cup LeveledLists, e \in Endings }

\* The titles of the headings.
Titles == { <<"T">>, <<"A", " ", "b">>, <<"C", "#", " ", "x">> }

\* N hashes, one space and a title, with and without the end of line; and
\* hashtags.
HeaderLines ==
  { times(<<"#">>, n) \o <<" ">> \o t \o e :
      n \in 0..MaxHashes, t \in Titles, e \in { <<>>, <<"\n">> } }
    \cup { <<"#", "t", "a", "g", "\n">>, <<"#", "#", "t", "a", "g", " ", "x", "\n">> (* "##tag x\n" *) }

\* The same with a space, four spaces or a tab before the hashes.
IndentedHeaderLines ==
  { w \o times(<<"#">>, n) \o <<" ">> \o t \o <<"\n">> :
      w \in { <<" ">>, <<" ", " ", " ", " ">>, <<"\t">> }, n \in 1..MaxHashes, t \in Titles }

HeaderCalls ==
  { Call("replace_md_headers", << l >>, 0, {}) : l \in HeaderLines \cup IndentedHeaderLines }

\* The rows of the tables: rows of two cells, a delimiter row, a row of
\* three cells and a row of one cell.
Rows ==
  { <<"|", "a", "|", "b", "|", "\n">> (* "|a|b|\n" *), <<"|", "-", "-", "-", "|", "-", "-", "-", "|", "\n">> (* "|---|---|\n" *), <<"|", "1", "|", "2", "|", "\n">> (* "|1|2|\n" *), <<"|", " ", "x", " ", "|", " ", "y", " ", "|", "\n">> (* "| x | y |\n" *), <<"|", "a", "|", "b", "|", "c", "|", "\n">> (* "|a|b|c|\n" *),
    <<"|", "1", "|", "\n">> }

\* Runs of 1..MaxRows rows.
Tables == UNION { [1..k -> Rows] : k \in 1..MaxRows }

\* A table at index 0 or after one line of text.
TableCalls ==
  { Call("convert_to_latex_table", p \o t \o e, Len(p), {}) :
      p \in Endings, t \in Tables, e \in Endings }

\* Lines with footnote markers, and the lines that may follow them.
MarkerLines == { <<"x", "[", "^", "1", "]", "\n">> (* "x[^1]\n" *), <<"a", "[", "^", "1", "]", " ", "b", "[", "^", "2", "]", "\n">> (* "a[^1] b[^2]\n" *) }
LaterLines == { <<"[", "^", "1", "]", ":", " ", "d", "\n">> (* "[^1]: d\n" *), <<"[", "^", "2", "]", ":", " ", "e", "\n">> (* "[^2]: e\n" *), <<"y", "\n">>, <<"s", "e", "e", " ", "[", "^", "1", "]", ":", " ", "z", "\n">> (* "see [^1]: z\n" *) }

RoutineCalls ==
  { Call("apply_conversion_routine", << m >> \o l, 0, {}) :
      m \in MarkerLines, l \in UNION { [1..k -> LaterLines] : k \in 1..MaxLater } }

\* Bullet lines with text the escaper rewrites, and one without.
EscapedItems == { <<"-", " ", "a", "&", "b", "\n">> (* "- a&b\n" *), <<"-", " ", "c", "_", "d", "\n">> (* "- c_d\n" *), <<"-", " ", "5", "%", " ", "#", "\n">> (* "- 5% #\n" *), <<"-", " ", "e", "\n">> }

\* The conversion routine called on the opener of a list of such lines that
\* a line of text ends.
ItemCalls ==
  { Call("apply_conversion_routine", << o >> \o l \o << <<"x", "\n">> >>, 0, {}) :
      o \in EscapedItems, l \in UNION { [1..k -> EscapedItems] : k \in 1..MaxLater } }

\* Math blocks: an opener, at most one line between, a closer, and the lines
\* after the block; text to style and to escape, and footnote markers, stand
\* in the lines after the opener.
MathOpeners == { <<"$", "$", "\n">>, <<" ", " ", "$", "$", " ", "x", "_", "1", "\n">> (* "  $$ x_1\n" *), <<"$", "$", " ", "*", "*", "a", "*", "*", "\n">> (* "$$ **a**\n" *) }
MathBodies == { <<>>, << <<"a", "_", "b", " ", "&", " ", "*", "*", "c", "*", "*", "\n">> (* "a_b & **c**\n" *) >>, << <<"y", "[", "^", "1", "]", " ", "%", "\n">> (* "y[^1] %\n" *) >> }
MathClosers == { <<"$", "$", "\n">>, <<"b", " ", "$", "$", " ", "c", "\n">> (* "b $$ c\n" *), <<"z", "[", "^", "1", "]", " ", "$", "$", "\n">> (* "z[^1] $$\n" *) }
MathTails ==
  { <<>>, << <<"t", "\n">> >>, << <<"[", "^", "1", "]", ":", " ", "d", "\n">> (* "[^1]: d\n" *) >>, << <<"$", "$", "\n">>, <<"[", "^", "1", "]", ":", " ", "d", "\n">> (* "[^1]: d\n" *) >> }

\* A math block at index 0 or after one line of text.
MathCalls ==
  { Call("apply_conversion_routine", p \o << o >> \o b \o << c >> \o t, Len(p), {}) :
      p \in Endings, o \in MathOpeners, b \in MathBodies, c \in MathClosers,
      t \in MathTails }

\* The files under the working directory during the calls of the dispatcher.
CallFiles ==
  { <<"a", ".", "m", "d">>, <<"b", ".", "m", "d">>, <<"m", "y", "_", "n", "o", "t", "e", ".", "m", "d">> (* "my_note.md" *), <<"S", "o", "m", "e", " ", "N", "o", "t", "e", ".", "m", "d">> (* "Some Note.md" *), <<"i", ".", "p", "n", "g">> }

\* The text between the double brackets.
Links ==
  { <<"b">>, <<"b", "|", "k">>, <<"m", "y", "_", "n", "o", "t", "e">> (* "my_note" *), <<"m", "y", "_", "n", "o", "t", "e", "|", "a", "l">> (* "my_note|al" *), <<"S", "o", "m", "e", " ", "N", "o", "t", "e">> (* "Some Note" *),
    <<"S", "o", "m", "e", " ", "N", "o", "t", "e", "|", "x", " ", "y">> (* "Some Note|x y" *), <<"n">>, <<"n", "|", "k">> }

\* A line with one link, alone or within text.
LinkedLines ==
  { p \o <<"[", "[">> \o l \o <<"]", "]">> \o s :
      p \in { <<>>, <<"t", " ">> }, l \in Links, s \in { <<"\n">>, <<" ", "u", "\n">> } }

TransformationCalls ==
  { Call("_apply_transformation", << <<"h", "\n">>, l >>, 1, CallFiles) : l \in LinkedLines }

\* Links with more than one "|".
PipedLinks ==
  { <<"b", "|", "k", "|", "m">>, <<"b", "|", "k", "|", "m", "|", "z">> (* "b|k|m|z" *), <<"m", "y", "_", "n", "o", "t", "e", "|", "a", "l", "|", "x", " ", "y">> (* "my_note|al|x y" *), <<"S", "o", "m", "e", " ", "N", "o", "t", "e", "|", "x", "|", "y">> (* "Some Note|x|y" *), <<"b", "|", "|", "m">>,
    <<"n", "|", "k", "|", "m">> }

\* A line with one such link, alone or within text.
PipedCalls ==
  { Call("_apply_transformation",
         << <<"h", "\n">>, p \o <<"[", "[">> \o l \o <<"]", "]">> \o s >>, 1, CallFiles) :
      p \in { <<>>, <<"t", " ">> }, l \in PipedLinks, s \in { <<"\n">>, <<" ", "u", "\n">> } }

\* Lines of notes with front matter: the delimiter alone, indented, with text
\* and a link after it; a key, a link.
FrontLines ==
  { <<"-", "-", "-", "\n">>, <<" ", " ", "-", "-", "-", "\n">> (* "  ---\n" *), <<"-", "-", "-", " ", "[", "[", "b", "]", "]", "\n">> (* "--- [[b]]\n" *), <<"k", ":", " ", "v", "\n">>, <<"[", "[", "b", "]", "]", "\n">> (* "[[b]]\n" *) }

\* A line that starts with the delimiter, white space aside.
IsDashLine(l) == startswith(lstrip(l), <<"-", "-", "-">>)

\* Notes of 1..MaxFront such lines.
FrontNotes == UNION { [1..k -> FrontLines] : k \in 1..MaxFront }

\* The dispatcher called on every delimiter line of these notes.
FrontCalls ==
  UNION { { Call("_apply_transformation", n, i, CallFiles) :
              i \in { j \in 0..(Len(n) - 1) : IsDashLine(at(n, j)) } } :
          n \in FrontNotes }

\* Lines of block quotes: the ">" first, after spaces, after a tab.
QuoteLines == { <<">", " ", "q", "\n">>, <<" ", " ", ">", " ", "r", "\n">> (* "  > r\n" *), <<"\t", ">", "s", " ", "&", " ", "*", "*", "t", "*", "*", "\n">> (* "\t>s & **t**\n" *) }

\* The dispatcher called on the first line of a block quote of 1..MaxQuote
\* lines, which ends the note or has a line of text after it.
QuoteCalls ==
  { Call("_apply_transformation", q \o e, 0, CallFiles) :
      q \in UNION { [1..k -> QuoteLines] : k \in 1..MaxQuote }, e \in Endings }

\* Lines in which the text of a span also stands outside the span, and lines
\* with special characters on both sides of a span.
RepeatedLines ==
  { <<"a", "&", "b", " ", "$", "a", "&", "b", "$", "\n">> (* "a&b $a&b$\n" *), <<"a", "%", " ", "BACKTICK", "a", "%", "BACKTICK", "\n">> (* "a% BACKTICKa%BACKTICK\n" *), <<"$", "c", "<", "d", "$", " ", "c", "<", "d", " ", "e", ">", "f", "\n">> (* "$c<d$ c<d e>f\n" *), <<"#", " ", "$", "x", "$", " ", "#", "\n">> (* "# $x$ #\n" *),
    <<"BACKTICK", "x", "BACKTICK", " ", "<", " ", "y", "\n">> (* "BACKTICKxBACKTICK < y\n" *) }

\* Lines with an odd number of delimiters and underscores outside the spans.
OddLines ==
  { <<"x", "_", "y", " ", "BACKTICK", "a", "BACKTICK", " ", "BACKTICK", "b", "\n">> (* "x_y BACKTICKaBACKTICK BACKTICKb\n" *), <<"x", "_", "y", " ", "$", "a", "$", " ", "$", "b", "\n">> (* "x_y $a$ $b\n" *), <<"x", "_", "y", " ", "BACKTICK", "a", "\n">> (* "x_y BACKTICKa\n" *), <<"x", "_", "y", " ", "$", "a", "\n">> (* "x_y $a\n" *),
    <<"x", "_", "y", " ", "BACKTICK", "a", "_", "b", "BACKTICK", " ", "z", "\n">> (* "x_y BACKTICKa_bBACKTICK z\n" *), <<"x", "_", "y", " ", "$", "a", "_", "b", "$", " ", "z", "\n">> (* "x_y $a_b$ z\n" *), <<"x", "_", "y", " ", "z", "\n">> (* "x_y z\n" *) }

\* Lines with math spans and inline code spans.
SpanLines ==
  { <<"$", "a", "&", "b", "$", "\n">> (* "$a&b$\n" *), <<"$", "x", "_", "1", "$", " ", "&", " ", "y", "\n">> (* "$x_1$ & y\n" *), <<"$", "$", "a", "%", "b", "$", "$", " ", "c", "_", "d", "\n">> (* "$$a%b$$ c_d\n" *), <<"BACKTICK", "a", "_", "b", "BACKTICK", " ", "#", "\n">> (* "BACKTICKa_bBACKTICK #\n" *),
    <<"BACKTICK", "a", "&", "b", "BACKTICK", " ", "$", "c", "<", "d", "$", "\n">> (* "BACKTICKa&bBACKTICK $c<d$\n" *), <<"$", "a", "&", "b", "$", " ", "$", "a", "&", "b", "&", "c", "$", "\n">> (* "$a&b$ $a&b&c$\n" *), <<"BACKTICK", "a", "%", "BACKTICK", " ", "BACKTICK", "a", "%", "b", "%", "BACKTICK", "\n">> (* "BACKTICKa%BACKTICK BACKTICKa%b%BACKTICK\n" *),
    <<"$", "p", "$", " ", "q", " ", "$", "r", "&", "s", "$", "\n">> (* "$p$ q $r&s$\n" *), <<"a", " ", "&", " ", "b", "\n">> (* "a & b\n" *) }
    \cup RepeatedLines \cup OddLines

EscaperCalls == { Call("handle_special_characters", << l >>, 0, {}) : l \in SpanLines }

CallInit ==
  \E c \in BulletCalls \cup HeaderCalls \cup TableCalls \cup RoutineCalls
             \cup MathCalls \cup ItemCalls \cup TransformationCalls \cup PipedCalls \cup FrontCalls
             \cup QuoteCalls
             \cup EscaperCalls : CallStart(c)

CallNext ==
  \/ CallBulletPoint
  \/ CallHeaders
  \/ CallTable
  \/ CallConversionRoutine
  \/ CallTransformation
  \/ CallSpecialCharacters

CallSpec == CallInit /\ [][CallNext]_vars

(***************************************************************************)
(* The properties checked.                                                 *)
(***************************************************************************)
IsPrefix(s, t) == Len(s) <= Len(t) /\ SubSeq(t, 1, Len(s)) = s

Last(s) == s[Len(s)]

\* The position in hist of the latest "pop" at or before position q.
LastPop(q) ==
  CHOOSE p \in 1..q :
    hist[p].op = "pop" /\ \A r \in (p + 1)..q : hist[r].op # "pop"

\* C1: in the line loop of one note the skip list only grows, and a line
\* whose index is in it is passed over: it is not given to the dispatcher
\* and it adds no fragment of its own to the buffer.
C1_SkippedLinesStaySkipped ==
  [][ pc = "line" =>
        /\ IsPrefix(lines_to_skip, lines_to_skip')
        /\ (ln < Len(lines) /\ ln \in Elems(lines_to_skip)) =>
             /\ Last(hist').op = "continue"
             /\ tex' = tex
             /\ lines_to_skip' = lines_to_skip
        /\ Last(hist').op \in {"dispatch", "raise"} =>
             ln \notin Elems(lines_to_skip)
        /\ tex' # tex =>
             /\ ln \notin Elems(lines_to_skip)
             /\ Len(tex') = Len(tex) + 1
             /\ SubSeq(tex', 1, Len(tex)) = tex
    ]_vars

\* A line was passed over and a later line of the same note was dispatched.
C1_Witness ==
  \E p, q \in 1..Len(hist) :
    /\ p < q
    /\ hist[p].op = "continue"
    /\ hist[q].op = "dispatch"
    /\ LastPop(p) = LastPop(q)
    /\ Len(tex) > 1

\* The paths of the notes taken from the worklist, in the order taken.
PoppedPaths ==
  LET pops == SelectSeq(hist, LAMBDA e : e.op = "pop")
  IN  [i \in 1..Len(pops) |-> pops[i].path]

RECURSIVE Discovered(_)
\* The notes the dispatched lines referred to, in the order of discovery.
Discovered(events) ==
  IF events = <<>> THEN <<>>
  ELSE (IF Head(events).op = "dispatch"
        THEN SelectSeq(Head(events).notes, LAMBDA a : contains(a, <<".", "m", "d">>))
        ELSE <<>>)
       \o Discovered(Tail(events))

WithMd(paths) == [i \in 1..Len(paths) |-> with_md(paths[i])]

\* C2: the notes are taken from the front of the worklist, the notes found
\* through links are put at its back in the order found and none is dropped
\* as a duplicate, and every line of a note is gone through before the next
\* note is taken.
C2_WorklistOrder ==
  /\ PoppedPaths \o WithMd(note_paths)
       = WithMd(args.note_paths
                  \o (IF args.include_linked_notes THEN Discovered(hist) ELSE <<>>))
  /\ \A q \in 1..Len(hist) :
       /\ (hist[q].op = "pop" /\ q > 1) => hist[q - 1].op = "end"
       /\ hist[q].op \in {"dispatch", "continue", "raise"} =>
            hist[q].ln = q - LastPop(q) - 1
       /\ hist[q].op = "end" =>
            /\ hist[q].ln = q - LastPop(q) - 1
            /\ hist[q].ln = Len(vault[opened(hist[LastPop(q)].path)])

\* A note reached through two links was converted twice, and the body holds
\* its fragments twice.
C2_Witness ==
  /\ pc = "done"
  /\ \E p, q \in 1..Len(PoppedPaths) : p < q /\ PoppedPaths[p] = PoppedPaths[q]
  /\ count(note_tex, <<"u", "\n">>) = 2

\* The white space a line starts with.
LeadingSpace(l) == SubSeq(l, 1, Len(l) - Len(lstrip(l)))

IsBullet(l) == startswith(lstrip(l), <<"-">>)

RECURSIVE BulletRun(_, _)
\* How many consecutive bullet lines there are from the i-th line on.
BulletRun(lines_, i) ==
  IF i <= Len(lines_) /\ IsBullet(lines_[i]) THEN 1 + BulletRun(lines_, i + 1) ELSE 0

\* The list the call is about is flat: all its bullet lines have one indent.
IsFlatList(lines_) ==
  /\ BulletRun(lines_, 1) >= 1
  /\ \A i \in 1..BulletRun(lines_, 1) : LeadingSpace(lines_[i]) = LeadingSpace(lines_[1])

\* The recognizer returned a rewritten list.
Matched(out) == out.exc = "" /\ ~out.none /\ out.flag

\* C3: a flat list of k bullet lines with a common indent of any width is
\* rewritten into one list-open command, k item commands and one list-close
\* command.
C3_FlatList ==
  (ret.fn = "replace_md_bullet_point" /\ IsFlatList(call.lines)) =>
    /\ Matched(ret.out)
    /\ count(ret.out.line, BEGIN_ITEMIZE) = 1
    /\ count(ret.out.line, END_ITEMIZE) = 1
    /\ count(ret.out.line, ITEM) = BulletRun(call.lines, 1)

\* The indent of a line in columns, a tab being one indent step.
Width(l) ==
  IF LeadingSpace(l) # <<>> /\ \A i \in 1..Len(LeadingSpace(l)) : LeadingSpace(l)[i] = "\t"
  THEN Len(LeadingSpace(l)) * CONFIG_indent
  ELSE Len(LeadingSpace(l))

\* The list goes one indent step deeper after its first line for m lines and
\* then comes back to the first indent, or ends m lines deeper on the last
\* line of the note.
NestedFor(lines_, m) ==
  /\ m + 1 <= BulletRun(lines_, 1)
  /\ \A i \in 2..(m + 1) : Width(lines_[i]) = Width(lines_[1]) + CONFIG_indent
  /\ \A i \in (m + 2)..BulletRun(lines_, 1) : Width(lines_[i]) = Width(lines_[1])
  /\ (m + 1 = BulletRun(lines_, 1)) => (m + 1 = Len(lines_))

\* The text between the second list-open command and the first list-close
\* command.
InnerList(line) ==
  SubSeq(line,
         find(line, BEGIN_ITEMIZE, find(line, BEGIN_ITEMIZE, 1) + 1),
         find(line, END_ITEMIZE, 1) - 1)

\* C4: a list that goes one indent step deeper and then comes back, or ends
\* at the deeper level on the last line of the note, is rewritten with one
\* nested list-open/list-close pair that holds exactly the nested items, one
\* close command for each of the two levels, and all its lines consumed.
C4_NestedList ==
  \A m \in 1..MaxItems :
    (ret.fn = "replace_md_bullet_point" /\ NestedFor(call.lines, m)) =>
      /\ Matched(ret.out)
      /\ count(ret.out.line, BEGIN_ITEMIZE) = 2
      /\ count(ret.out.line, END_ITEMIZE) = 2
      /\ count(ret.out.line, ITEM) = BulletRun(call.lines, 1)
      /\ count(InnerList(ret.out.line), ITEM) = m
      /\ count(InnerList(ret.out.line), <<"\\", "i", "t", "e", "m", " ", "n">> (* "\\item n" *)) = m
      /\ ret.out.skip = range(1, BulletRun(call.lines, 1))

\* The sectioning command of each heading level.
HeadingCommands ==
  << <<"\\", "s", "e", "c", "t", "i", "o", "n", "{">> (* "\\section{" *), <<"\\", "s", "u", "b", "s", "e", "c", "t", "i", "o", "n", "{">> (* "\\subsection{" *), <<"\\", "s", "u", "b", "s", "u", "b", "s", "e", "c", "t", "i", "o", "n", "{">> (* "\\subsubsection{" *),
     <<"\\", "m", "y", "p", "a", "r", "a", "g", "r", "a", "p", "h", "{">> (* "\\myparagraph{" *), <<"\\", "m", "y", "s", "u", "b", "p", "a", "r", "a", "g", "r", "a", "p", "h", "{">> (* "\\mysubparagraph{" *) >>

\* How many '#' characters a line starts with.
HashRun(line) == Len(line) - Len(lstrip_chars(line, {"#"}))

\* What follows the hash run of a line.
AfterHashes(line) == SubSeq(line, HashRun(line) + 1, Len(line))

\* The text of a line without its end of line.
WithoutNewline(s) == IF endswith(s, <<"\n">>) THEN SubSeq(s, 1, Len(s) - 1) ELSE s

\* C5: a line of N hashes (N in 1..5), one space and a title becomes the
\* sectioning command of level N whose title is exactly what follows the
\* marker; with no hash, with six hashes or more, or with something other
\* than a space after the hashes, the line is not a heading.
C5_Headings ==
  ret.fn = "replace_md_headers" =>
    IF /\ HashRun(call.lines[1]) \in 1..5
       /\ startswith(AfterHashes(call.lines[1]), <<" ">>)
    THEN /\ Matched(ret.out)
         /\ ret.out.line = HeadingCommands[HashRun(call.lines[1])]
                             \o WithoutNewline(Tail(AfterHashes(call.lines[1])))
                             \o <<"}", "\n">>
    ELSE /\ ret.out.exc = ""
         /\ ~ret.out.flag
         /\ ret.out.line = call.lines[1]

RECURSIVE PipeRun(_, _)
\* How many consecutive lines from the 0-based index i on start with "|".
PipeRun(lines_, i) ==
  IF i < Len(lines_) /\ startswith(at(lines_, i), <<"|">>)
  THEN 1 + PipeRun(lines_, i + 1) ELSE 0

\* The cells of a row: what stands between its separators, and after the
\* last one when that is not blank.
Cells(row) ==
  LET parts == split(row, <<"|">>)
  IN  IF strip(parts[Len(parts)]) = <<>> THEN SubSeq(parts, 2, Len(parts) - 1)
      ELSE SubSeq(parts, 2, Len(parts))

\* A cell that is a rule of dashes.
IsDashRule(cell) ==
  /\ Len(strip(cell)) >= 3
  /\ \A i \in 1..Len(strip(cell)) : strip(cell)[i] = "-"

IsDelimiterRow(row) ==
  Cells(row) # <<>> /\ \A c \in 1..Len(Cells(row)) : IsDashRule(Cells(row)[c])

\* The row emitted for a line: its cells trimmed and joined by " & ".
ExpectedRow(row) ==
  join(<<" ", "&", " ">>, [c \in 1..Len(Cells(row)) |-> strip(Cells(row)[c])])
    \o <<"\\", "\\", " ", "\\", "h", "l", "i", "n", "e", "\n">> (* "\\\\ \\hline\n" *)

RECURSIVE ExpectedRows(_, _, _)
\* The rows emitted for the k lines from the 0-based index i on.
ExpectedRows(lines_, i, k) ==
  IF k = 0 THEN <<>>
  ELSE (IF IsDelimiterRow(at(lines_, i)) THEN <<>> ELSE ExpectedRow(at(lines_, i)))
       \o ExpectedRows(lines_, i + 1, k - 1)

\* C6: for a run of k lines starting with "|" from index i on, the table
\* recognizer reports a match, marks the indices i+1 .. i+k-1 consumed, and
\* emits one row for each line that is not a delimiter row, in the order of
\* the lines, with the cells trimmed and joined by the column separator.
C6_TableRows ==
  ret.fn = "convert_to_latex_table" =>
    /\ Matched(ret.out)
    /\ ret.out.skip = range(call.idx + 1, call.idx + PipeRun(call.lines, call.idx))
    /\ contains(ret.out.line,
                <<"}", "\n", "\\", "h", "l", "i", "n", "e", "\n">> (* "}\n\\hline\n" *)
                  \o ExpectedRows(call.lines, call.idx, PipeRun(call.lines, call.idx))
                  \o <<"\\", "e", "n", "d", "{", "t", "a", "b", "u", "l", "a", "r", "}", "\n">> (* "\\end{tabular}\n" *))

\* The footnote numbers of the calls.
FootnoteNumbers == { <<"1">>, <<"2">> }

\* The start of the definition line of footnote n.
DefinitionStart(n) == <<"[", "^">> \o n \o <<"]", ":", " ">>

\* The line at the 0-based index j is the one definition of footnote n after
\* the first line.
IsTheDefinition(lines_, j, n) ==
  /\ startswith(at(lines_, j), DefinitionStart(n))
  /\ \A k \in 1..(Len(lines_) - 1) :
       startswith(at(lines_, k), DefinitionStart(n)) => k = j

\* C7: when the line given to the conversion routine carries the marker
\* [^n] and a later line j is the definition "[^n]: body", the marker is
\* replaced by a footnote command with n and body, and j is in the skip list
\* returned.
C7_FootnoteRoundTrip ==
  ret.fn = "apply_conversion_routine" =>
    \A n \in FootnoteNumbers, j \in 1..(Len(call.lines) - 1) :
      (/\ contains(call.lines[1], <<"[", "^">> \o n \o <<"]">>)
       /\ IsTheDefinition(call.lines, j, n)) =>
        /\ ret.out.exc = ""
        /\ contains(ret.out.line,
                    <<"\\", "f", "o", "o", "t", "n", "o", "t", "e", "[">> (* "\\footnote[" *) \o n \o <<"]", "{">>
                      \o SubSeq(at(call.lines, j), Len(DefinitionStart(n)) + 1,
                                Len(at(call.lines, j)))
                      \o <<"}">>)
        /\ ~contains(ret.out.line, <<"[", "^">> \o n \o <<"]">>)
        /\ j \in Elems(ret.out.skip)

\* The first link of a line, the empty text for a line without links.
LinkOf(line) ==
  IF findall(line, <<"[", "[">>, <<"]", "]">>, 0) = <<>> THEN <<>>
  ELSE findall(line, <<"[", "[">>, <<"]", "]">>, 0)[1]

\* The target of a link: what stands before the first "|".
Target(link) == split(link, <<"|">>)[1]

\* The visible text of a link: the alias after the "|", the target without one.
Visible(link) ==
  IF contains(link, <<"|">>)
  THEN SubSeq(link, find(link, <<"|">>, 1) + 1, Len(link)) ELSE link

\* The titles the title-derivation rule gives the notes of the calls.
Titles_of_notes ==
  (<<"b">> :> <<"B">>) @@ (<<"m", "y", "_", "n", "o", "t", "e">> (* "my_note" *) :> <<"M", "y", " ", "N", "o", "t", "e">> (* "My Note" *))
    @@ (<<"S", "o", "m", "e", " ", "N", "o", "t", "e">> (* "Some Note" *) :> <<"S", "o", "m", "e", " ", "N", "o", "t", "e">> (* "Some Note" *))

\* The target of the link is a note among the files.
Resolves(link, files) == with_md(Target(link)) \in files

\* C8: a link whose target is an existing note is replaced in place by a
\* cross-reference whose anchor is the title derived from the target; the
\* visible text is the target without "|" and the alias with one "|", and
\* the anchor is the same in both forms.  (The opener of a front matter is
\* no line of text: its links are not looked at.)
C8_LinkCrossReference ==
  (/\ ret.fn = "_apply_transformation"
   /\ Resolves(LinkOf(at(call.lines, call.idx)), call.files)
   /\ count(LinkOf(at(call.lines, call.idx)), <<"|">>) <= 1
   /\ ~(call.idx = 0 /\ IsDashLine(at(call.lines, call.idx)))) =>
    /\ ret.out.exc = ""
    /\ at(ret.out.content, call.idx)
         = replace(at(call.lines, call.idx),
                   <<"[", "[">> \o LinkOf(at(call.lines, call.idx)) \o <<"]", "]">>,
                   <<"\\", "h", "y", "p", "e", "r", "r", "e", "f", "[", "c", "h", ":">> (* "\\hyperref[ch:" *)
                     \o extract_note_title(Target(LinkOf(at(call.lines, call.idx))), TRUE)
                     \o <<"]", "{">> \o Visible(LinkOf(at(call.lines, call.idx))) \o <<"}">>)
    /\ extract_note_title(Target(LinkOf(at(call.lines, call.idx))), TRUE)
         = Titles_of_notes[Target(LinkOf(at(call.lines, call.idx)))]
    /\ contains(ret.out.line,
                <<"\\", "h", "y", "p", "e", "r", "r", "e", "f", "[", "c", "h", ":">> (* "\\hyperref[ch:" *)
                  \o Titles_of_notes[Target(LinkOf(at(call.lines, call.idx)))]
                  \o <<"]", "{">>)
    /\ ret.out.notes = << <<".", "/">> \o with_md(Target(LinkOf(at(call.lines, call.idx)))) >>

\* The dispatcher returned from a line whose link has an alias and a target
\* that is a note.
C8_Witness ==
  /\ ret.fn = "_apply_transformation"
  /\ Resolves(LinkOf(at(call.lines, call.idx)), call.files)
  /\ contains(LinkOf(at(call.lines, call.idx)), <<"|">>)
  /\ ret.out.exc = ""
  /\ contains(ret.out.line, <<"\\", "h", "y", "p", "e", "r", "r", "e", "f", "[", "c", "h", ":", "S", "o", "m", "e", " ", "N", "o", "t", "e", "]", "{", "x", " ", "y", "}">> (* "\\hyperref[ch:Some Note]{x y}" *))

\* C9: after the escaper the content of every math span and of every inline
\* code span of a line is what it was before.
C9_SpansKept ==
  (/\ ret.fn = "handle_special_characters"
   /\ (math_contents(call.lines[1]) # <<>> \/ inline_contents(call.lines[1]) # <<>>)) =>
    /\ math_contents(ret.out) = math_contents(call.lines[1])
    /\ inline_contents(ret.out) = inline_contents(call.lines[1])

\* The line at the 0-based index i opens a code block or a math block that
\* no later line closes.
UnclosedOpener(lines_, i) ==
  \/ /\ startswith(lstrip(at(lines_, i)), <<"BACKTICK", "BACKTICK", "BACKTICK">>)
     /\ \A j \in (i + 1)..(Len(lines_) - 1) :
          ~startswith(lstrip(at(lines_, j)), <<"BACKTICK", "BACKTICK", "BACKTICK">>)
  \/ /\ startswith(lstrip(at(lines_, i)), <<"$", "$">>)
     /\ count(lstrip(at(lines_, i)), <<"$", "$">>) = 1
     /\ \A j \in (i + 1)..(Len(lines_) - 1) : ~contains(at(lines_, j), <<"$", "$">>)

\* C10: the conversion of a note does not raise on a code block opener or a
\* math block opener that no later line closes.
C10_UnclosedBlocks ==
  ~(/\ pc = "raised"
    /\ hist # <<>>
    /\ Last(hist).op = "raise"
    /\ UnclosedOpener(lines, ln))

(***************************************************************************)
(* Images, the argument forms of add_note, extensions, termination.        *)
(***************************************************************************)
\* The references to images among the notes a dispatch returned.
ImagesOf(notes) == SelectSeq(notes, LAMBDA graphic : contains(graphic, <<".", "p", "n", "g">>))

\* The text that stands for the link to the image i.png in a rewritten fragment.
ImageLinkText == <<"\\", "h", "y", "p", "e", "r", "r", "e", "f", "[", "c", "h", ":", "I", ".", "P", "n", "g", "]", "{", "i", ".", "p", "n", "g", "}">> (* "\\hyperref[ch:I.Png]{i.png}" *)

\* C11: when a dispatched line holds a link to an image that is found, and
\* linked notes are included, the last fragment of the buffer is the line's
\* rewritten fragment with the embed markup in the place of the link text:
\* everything else of the fragment, consumed lines included, is still there.
C11_ImageEmbedOnly ==
  (/\ hist # <<>>
   /\ Last(hist).op = "dispatch"
   /\ args.include_linked_notes
   /\ ImagesOf(Last(hist).notes) # <<>>) =>
    /\ contains(Last(hist).line, ImageLinkText)
    /\ Last(tex) = replace(Last(hist).line, ImageLinkText,
                           _include_graphic(Head(ImagesOf(Last(hist).notes)),
                                            img_width_text))

\* C12: when add_note is given a list of paths and every note of the worklist
\* has been converted, the call completes and leaves as body the fragments of
\* the notes in list order, as for a single path.
C12_ListOfPaths ==
  (/\ ~args.is_str
   /\ hist # <<>>
   /\ Last(hist).op = "end"
   /\ pc \in {"done", "raised"}) =>
    /\ pc = "done"
    /\ note_tex = join(<<"\n">>, tex)

\* The path has an extension: its file name has a ".".
HasExtension(path) == contains(Last(split(path, <<"/">>)), <<".">>)

\* C13: the first path of the worklist is opened with ".md" appended when it
\* has no extension and exactly as given when it has one, and a path that
\* names a file of the directory is opened without error.
C13_DefaultExtension ==
  hist # <<>> =>
    /\ hist[1].path = IF HasExtension(args.note_paths[1])
                      THEN args.note_paths[1]
                      ELSE args.note_paths[1] \o <<".", "m", "d">>
    /\ (Len(hist) = 1 /\ args.note_paths[1] \in DOMAIN vault) => pc = "line"

\* C14: add_note terminates, the worklist becoming empty. The loop is
\* deterministic and what it does after taking a note depends only on that
\* note and on the worklist left, so it terminates only if it never takes the
\* same note twice with the same worklist left.
C14_WorklistEmpties ==
  \A p, q \in 1..Len(hist) :
    (p < q /\ hist[p].op = "pop" /\ hist[q].op = "pop") =>
      ~(hist[p].path = hist[q].path /\ hist[p].rest = hist[q].rest)

(***************************************************************************)
(* Lists: balance, the last line of the note, the skip list.               *)
(***************************************************************************)
\* The places of a fragment where a list-close command ends.
CloseEnds(line) ==
  { k \in Len(END_ITEMIZE)..Len(line) :
      SubSeq(line, k - Len(END_ITEMIZE) + 1, k) = END_ITEMIZE }

\* The list opens at indent 0 and all its items have an indent that is a
\* multiple of the indent width.
IsLeveledList(lines_) ==
  /\ BulletRun(lines_, 1) >= 1
  /\ LeadingSpace(lines_[1]) = <<>>
  /\ \A i \in 1..BulletRun(lines_, 1) : Width(lines_[i]) % CONFIG_indent = 0

\* C15: for a list that opens at indent 0 and whose items have indents that
\* are multiples of the indent width, the fragment has as many list-close as
\* list-open commands, and up to no place of it more closes than opens.
C15_BalancedList ==
  (/\ ret.fn = "replace_md_bullet_point"
   /\ IsLeveledList(call.lines)
   /\ ret.out.exc = ""
   /\ ~ret.out.none) =>
    /\ count(ret.out.line, END_ITEMIZE) = count(ret.out.line, BEGIN_ITEMIZE)
    /\ \A k \in CloseEnds(ret.out.line) :
         count(SubSeq(ret.out.line, 1, k), END_ITEMIZE)
           <= count(SubSeq(ret.out.line, 1, k), BEGIN_ITEMIZE)

\* C16: a list whose last bullet line is the last line of the note, a single
\* bullet line included, comes back as a match, with every list level that
\* was opened closed and a list-close command at its end.
C16_ListEndsNote ==
  (/\ ret.fn = "replace_md_bullet_point"
   /\ BulletRun(call.lines, 1) >= 1
   /\ BulletRun(call.lines, 1) = Len(call.lines)) =>
    /\ Matched(ret.out)
    /\ endswith(ret.out.line, END_ITEMIZE)
    /\ count(ret.out.line, END_ITEMIZE) >= count(ret.out.line, BEGIN_ITEMIZE)

\* The line opens a list for the recognizer: it starts with "-" and is not a
\* rule of dashes.
IsListOpener(l) == IsBullet(l) /\ ~startswith(lstrip(l), <<"-", "-", "-">>)

\* The events of hist that belong to the note being converted.
CurrentEvents == (LastPop(Len(hist)) + 1)..Len(hist)

\* The opener of a list was dispatched at event q and came back with exactly
\* the indices of the bullet lines folded into the list.
FoldedExactly(q) ==
  hist[q].skip = range(hist[q].ln + 1, hist[q].ln + BulletRun(lines, hist[q].ln + 1))

\* Event r is about the line that ends the list opened at event q.
EndsListOf(r, q) ==
  /\ r > q
  /\ hist[r].ln = hist[q].ln + BulletRun(lines, hist[q].ln + 1)
  /\ hist[r].ln < Len(lines)

\* An earlier dispatch of the note had consumed the line of event r.
ConsumedBefore(r) ==
  \E s \in CurrentEvents :
    s < r /\ hist[s].op = "dispatch" /\ hist[r].ln \in Elems(hist[s].skip)

\* C17 as stated: the skip list of a list opener holds exactly the indices of
\* the bullet lines folded into the list, and the line that ends the list is
\* always dispatched on its own afterwards.
C17_AsStated ==
  hist # <<>> =>
    \A q \in CurrentEvents :
      (hist[q].op = "dispatch" /\ IsListOpener(at(lines, hist[q].ln))) =>
        /\ FoldedExactly(q)
        /\ \A r \in CurrentEvents :
             EndsListOf(r, q) => hist[r].op \in {"dispatch", "raise"}

\* C17: the skip list of a list opener holds exactly the indices of the bullet
\* lines folded into the list; the line that ends the list is not in it, and
\* the loop dispatches that line on its own afterwards unless an earlier line
\* of the note had consumed it.
C17_BulletSkipList ==
  hist # <<>> =>
    \A q \in CurrentEvents :
      (hist[q].op = "dispatch" /\ IsListOpener(at(lines, hist[q].ln))) =>
        /\ FoldedExactly(q)
        /\ \A r \in CurrentEvents :
             EndsListOf(r, q) =>
               /\ hist[r].ln \notin Elems(hist[q].skip)
               /\ hist[r].op \in {"dispatch", "raise"} <=> ~ConsumedBefore(r)

\* A list of two lines or more was folded and the line that ends it was
\* dispatched afterwards.
C17_Witness ==
  /\ hist # <<>>
  /\ \E q, r \in CurrentEvents :
       /\ q < r
       /\ hist[q].op = "dispatch"
       /\ IsListOpener(at(lines, hist[q].ln))
       /\ BulletRun(lines, hist[q].ln + 1) >= 2
       /\ hist[q].skip # <<>>
       /\ hist[r].op = "dispatch"
       /\ hist[r].ln = hist[q].ln + BulletRun(lines, hist[q].ln + 1)

(***************************************************************************)
(* Links of a line, code blocks, block math.                               *)
(***************************************************************************)
RECURSIVE NotesLinked(_, _)
\* The notes the links of a line refer to, as paths from the working
\* directory, in the order of the links.
NotesLinked(links, files) ==
  IF links = <<>> THEN <<>>
  ELSE (IF Resolves(Head(links), files)
        THEN << <<".", "/">> \o with_md(Target(Head(links))) >> ELSE <<>>)
       \o NotesLinked(Tail(links), files)

\* The line of the note being converted that event q is about, as the file
\* has it.
LineOfEvent(q) == vault[opened(hist[LastPop(q)].path)][hist[q].ln + 1]

\* C18: with linked notes included, every link of a dispatched line whose
\* target is a note of the directory is recorded as a follow-on reference, and
\* the references are put at the back of the worklist; this holds for a line
\* with links to several notes as well.
C18_LinksRecorded ==
  (hist # <<>> /\ args.include_linked_notes) =>
    \A q \in CurrentEvents :
      hist[q].op = "dispatch" =>
        /\ additional_md_notes(hist[q].notes)
             = NotesLinked(findall(LineOfEvent(q), <<"[", "[">>, <<"]", "]">>, 0), DOMAIN vault)
        /\ q = Len(hist) =>
             /\ Len(note_paths) >= Len(additional_md_notes(hist[q].notes))
             /\ SubSeq(note_paths,
                       Len(note_paths) - Len(additional_md_notes(hist[q].notes)) + 1,
                       Len(note_paths))
                  = additional_md_notes(hist[q].notes)

(***************************************************************************)
(* C19: fenced code blocks.                                                *)
(***************************************************************************)
\* The lines of the note an event belongs to, as they are in the file.
RawLines(q) == vault[opened(hist[LastPop(q)].path)]

\* A fence line: three backticks after leading white space.
IsFence(l) == startswith(lstrip(l), <<"BACKTICK", "BACKTICK", "BACKTICK">>)

\* The 0-based indices of the fence lines after line i of a note.
FencesAfter(lines_, i) == { j \in (i + 1)..(Len(lines_) - 1) : IsFence(at(lines_, j)) }

\* What an opener names as the language: the text after the backticks,
\* without spaces and end of line.
LanguageOf(l) ==
  SelectSeq(SubSeq(lstrip(l), 4, Len(lstrip(l))), LAMBDA c : c \notin {" ", "\n", "BACKTICK"})

\* The raw lines a..b-1 one after another; the code environment supplies the
\* end of the last line itself.
Verbatim(lines_, a, b) ==
  IF concat(slice(lines_, a, b)) = <<>> THEN <<>>
  ELSE SubSeq(concat(slice(lines_, a, b)), 1, Len(concat(slice(lines_, a, b))) - 1)

\* The events of the current note in which add_note gave a fence line that has
\* a later fence line to the dispatcher.
OpenerEvents ==
  { q \in CurrentEvents :
      /\ hist[q].op \in {"dispatch", "raise"}
      /\ IsFence(RawLines(q)[hist[q].ln + 1])
      /\ FencesAfter(RawLines(q), hist[q].ln) # {} }

\* The index of the fence that closes the block opened at event q.
CloserOf(q) == Least(FencesAfter(RawLines(q), hist[q].ln))

\* The indices consumed in the current note before event q.
SkippedBefore(q) ==
  UNION { Elems(hist[p].skip) : p \in { r \in CurrentEvents : r < q } }

\* C19: a fence line with a later fence line becomes a code environment whose
\* body is the raw lines strictly between the opener and the next fence, one
\* after another and unchanged; it consumes exactly the lines after the
\* opener through that fence; those lines are passed over, and the line after
\* the closing fence is consumed by nothing of this block, so that a later
\* opener is given to the dispatcher as an opener of its own.
C19_CodeBlock ==
  hist # <<>> =>
    \A q \in OpenerEvents :
      /\ hist[q].op = "dispatch"
      /\ hist[q].line =
           convert_to_latex_code(
             Verbatim(RawLines(q), hist[q].ln + 1, CloserOf(q)),
             LanguageOf(RawLines(q)[hist[q].ln + 1]))
      /\ hist[q].skip = range(hist[q].ln + 1, CloserOf(q) + 1)
      /\ \A p \in CurrentEvents :
           p > q =>
             /\ hist[p].ln \in (hist[q].ln + 1)..CloserOf(q) => hist[p].op = "continue"
             /\ (hist[p].ln = CloserOf(q) + 1 /\ hist[p].ln \notin SkippedBefore(q)
                   /\ hist[p].op # "end")
                  => hist[p].op # "continue"

\* A note with two code blocks has been read to its end: both openers were
\* dispatched, the first block has a line with text to style and to escape.
C19_Witness ==
  /\ hist # <<>>
  /\ Last(hist).op = "end"
  /\ Cardinality(OpenerEvents) = 2
  /\ \E q \in OpenerEvents :
       /\ hist[q].ln = 0
       /\ CloserOf(q) = 3
       /\ RawLines(q)[2] = <<"*", "*", "a", "*", "*", " ", "_", "b", "_", "\n">> (* "**a** _b_\n" *)
       /\ RawLines(q)[3] = <<"[", "[", "b", "]", "]", "\n">> (* "[[b]]\n" *)

(***************************************************************************)
(* C20: math blocks.                                                       *)
(***************************************************************************)
\* A line that opens a math block: "$$" after leading white space, once.
IsMathOpener(l) == startswith(lstrip(l), <<"$", "$">>) /\ count(lstrip(l), <<"$", "$">>) = 1

\* The 0-based indices of the lines after line i that contain "$$".
MathClosersAfter(lines_, i) ==
  { j \in (i + 1)..(Len(lines_) - 1) : contains(at(lines_, j), <<"$", "$">>) }

\* C20: when the conversion routine is given a math opener that a later line
\* with "$$" follows, it returns the raw lines from the opener through the
\* first such line, one after another and unchanged, and as consumed exactly
\* the indices after the opener through that line.
C20_MathBlock ==
  (/\ ret.fn = "apply_conversion_routine"
   /\ IsMathOpener(at(call.lines, call.idx))
   /\ MathClosersAfter(call.lines, call.idx) # {}) =>
    /\ ret.out.exc = ""
    /\ ret.out.line =
         concat(slice(call.lines, call.idx,
                      Least(MathClosersAfter(call.lines, call.idx)) + 1))
    /\ ret.out.skip =
         range(call.idx + 1, Least(MathClosersAfter(call.lines, call.idx)) + 1)

(***************************************************************************)
(* C21: front matter.                                                      *)
(***************************************************************************)
\* The 0-based index of the first delimiter line after line 0, the last index
\* of the note when there is none.
FrontMatterCloser(lines_) ==
  IF \E j \in 1..(Len(lines_) - 1) : IsDashLine(at(lines_, j))
  THEN Least({ j \in 1..(Len(lines_) - 1) : IsDashLine(at(lines_, j)) })
  ELSE Len(lines_) - 1

\* C21: called at index 0 on a line that starts with "---" (leading white
\* space aside), the dispatcher returns the empty string, the indices 0
\* through the first later delimiter line (through the last line without one)
\* and no references; called on such a line at another index it returns a
\* fragment for the line and consumes neither the line nor what follows it.
C21_FrontMatter ==
  (ret.fn = "_apply_transformation" /\ IsDashLine(at(call.lines, call.idx))) =>
    /\ ret.out.exc = ""
    /\ call.idx = 0 =>
         /\ ret.out.line = <<>>
         /\ ret.out.skip = range(0, FrontMatterCloser(call.lines) + 1)
         /\ ret.out.notes = <<>>
    /\ call.idx # 0 =>
         /\ ret.out.line # <<>>
         /\ ret.out.skip = <<>>

\* The dispatcher has returned from a front matter of three lines: the opener
\* carries a link, a key line stands between the delimiters.
C21_Witness ==
  /\ ret.fn = "_apply_transformation"
  /\ call.idx = 0
  /\ call.lines = << <<"-", "-", "-", " ", "[", "[", "b", "]", "]", "\n">> (* "--- [[b]]\n" *), <<"k", ":", " ", "v", "\n">>, <<" ", " ", "-", "-", "-", "\n">> (* "  ---\n" *) >>
  /\ ret.out.skip = <<0, 1, 2>>

(***************************************************************************)
(* C22: block quotes.                                                      *)
(***************************************************************************)
\* A line of a block quote: ">" after leading white space.
IsQuoteLine(l) == startswith(lstrip(l), <<">">>)

\* The line without leading white space, its ">" prefix and the white space
\* after the prefix.
Unquoted(l) == lstrip(lstrip_chars(lstrip(l), {">"}))

RECURSIVE QuoteBox(_, _, _)
\* The lines i..last of a note, each without its prefix, styled and escaped.
QuoteBox(lines_, i, last) ==
  IF i > last THEN <<>>
  ELSE handle_special_characters(replace_text_style(Unquoted(at(lines_, i)) \o <<"\n">>))
         \o QuoteBox(lines_, i + 1, last)

\* C22: the box the dispatcher returns for a block quote holds every line of
\* the run of quote lines without its ">" prefix, styled and escaped, also
\* when white space stands before the ">".
C22_QuotePrefix ==
  (/\ ret.fn = "_apply_transformation"
   /\ IsQuoteLine(at(call.lines, call.idx))
   /\ ~contains(at(call.lines, call.idx), <<"[", "!">>)) =>
    /\ ret.out.exc = ""
    /\ ret.out.line =
         <<"\\", "b", "e", "g", "i", "n", "{", "a", "d", "v", "t", "c", "o", "l", "o", "r", "b", "o", "x", "}", "\n">> (* "\\begin{advtcolorbox}\n" *)
           \o QuoteBox(call.lines, call.idx,
                       call.idx + quote_run(call.lines, call.idx) - 1)
           \o <<"\\", "e", "n", "d", "{", "a", "d", "v", "t", "c", "o", "l", "o", "r", "b", "o", "x", "}", "\n">> (* "\\end{advtcolorbox}\n" *)

(***************************************************************************)
(* C23: the definition of a footnote.                                      *)
(***************************************************************************)
\* The marker of footnote n and what a definition line of n begins with.
MarkerOf(n) == <<"[", "^">> \o n \o <<"]">>
DefinitionMark(n) == MarkerOf(n) \o <<":">>

\* The line mentions the definition mark of n after other text.
MentionsDefinition(l, n) ==
  contains(l, DefinitionMark(n)) /\ ~startswith(l, DefinitionMark(n))

\* What follows the definition mark on a definition line, leading white space
\* aside.
BodyOf(l, n) == lstrip(SubSeq(l, Len(DefinitionMark(n)) + 1, Len(l)))

\* C23: for a marker [^n] on the line given to the conversion routine, a later
\* line that holds "[^n]:" after other text is not consumed; and when the
\* marker is replaced by a footnote, its body is what follows "[^n]:" on a
\* later line that begins with it.
C23_DefinitionLine ==
  ret.fn = "apply_conversion_routine" =>
    \A n \in FootnoteNumbers :
      contains(at(call.lines, call.idx), MarkerOf(n)) =>
        /\ ret.out.exc = ""
        /\ \A j \in (call.idx + 1)..(Len(call.lines) - 1) :
             MentionsDefinition(at(call.lines, j), n) => j \notin Elems(ret.out.skip)
        /\ contains(ret.out.line, <<"\\", "f", "o", "o", "t", "n", "o", "t", "e", "[">> (* "\\footnote[" *) \o n \o <<"]", "{">>) =>
             \E j \in (call.idx + 1)..(Len(call.lines) - 1) :
               /\ startswith(at(call.lines, j), DefinitionMark(n))
               /\ contains(ret.out.line,
                           <<"\\", "f", "o", "o", "t", "n", "o", "t", "e", "[">> (* "\\footnote[" *) \o n \o <<"]", "{">>
                             \o BodyOf(at(call.lines, j), n) \o <<"}">>)

(***************************************************************************)
(* C24: the alias of a link.                                               *)
(***************************************************************************)
\* The alias of a link: the target without "|", what follows the "|" with
\* one, the segment after the last "|" with more.
AliasOf(link) ==
  IF count(link, <<"|">>) = 0 THEN Target(link)
  ELSE IF count(link, <<"|">>) = 1 THEN Visible(link)
  ELSE split(link, <<"|">>)[Len(split(link, <<"|">>))]

\* C24: the cross-reference that replaces a link to an existing note shows
\* the alias of the link: the segment after the last "|" when the link has
\* more than one, the remainder after the "|" when it has one, the target
\* when it has none.
C24_LinkAlias ==
  (/\ ret.fn = "_apply_transformation"
   /\ ~(call.idx = 0 /\ IsDashLine(at(call.lines, call.idx)))
   /\ Resolves(LinkOf(at(call.lines, call.idx)), call.files)) =>
    /\ ret.out.exc = ""
    /\ at(ret.out.content, call.idx)
         = replace(at(call.lines, call.idx),
                   <<"[", "[">> \o LinkOf(at(call.lines, call.idx)) \o <<"]", "]">>,
                   <<"\\", "h", "y", "p", "e", "r", "r", "e", "f", "[", "c", "h", ":">> (* "\\hyperref[ch:" *)
                     \o extract_note_title(Target(LinkOf(at(call.lines, call.idx))), TRUE)
                     \o <<"]", "{">> \o lstrip(AliasOf(LinkOf(at(call.lines, call.idx))))
                     \o <<"}">>)

(***************************************************************************)
(* C25: indented headings.                                                 *)
(***************************************************************************)
\* White space, then one to five hashes, then a space.
IsIndentedHeading(l) ==
  /\ lstrip(l) # l
  /\ HashRun(lstrip(l)) \in 1..5
  /\ startswith(AfterHashes(lstrip(l)), <<" ">>)

\* C25: a line with white space before one to five hashes and a space is a
\* heading, and the heading recognizer returns for it what it returns for the
\* line without the white space.
C25_IndentedHeading ==
  (ret.fn = "replace_md_headers" /\ IsIndentedHeading(call.lines[1])) =>
    /\ Matched(ret.out)
    /\ ret.out.line = replace_md_headers(lstrip(call.lines[1])).line

(***************************************************************************)
(* C26: special characters outside the spans.                              *)
(***************************************************************************)
\* The characters the escaper escapes wherever they stand.
Specials == {"&", "%", ">", "<", "#"}

RECURSIVE EscapedText(_)
\* A text with a backslash before each of its special characters.
EscapedText(s) ==
  IF s = <<>> THEN <<>>
  ELSE (IF Head(s) \in Specials THEN << "\\", Head(s) >> ELSE << Head(s) >>)
         \o EscapedText(Tail(s))

\* The delimiter of the spans of a line: the backtick, "$$" or "$".
DelimiterOf(l) ==
  IF contains(l, <<"BACKTICK">>) THEN <<"BACKTICK">>
  ELSE IF contains(l, <<"$", "$">>) THEN <<"$", "$">> ELSE <<"$">>

RECURSIVE OutsideSpans(_, _)
\* The text s from its span that begins at i and ends with the delimiter at j.
OutsideSpan(s, d, i, j) ==
  IF j = 0 THEN s
  ELSE SubSeq(s, 1, i - 1) \o d \o d \o OutsideSpans(SubSeq(s, j + Len(d), Len(s)), d)

\* The text s from the first delimiter at i on.
OutsideFrom(s, d, i) ==
  IF i = 0 THEN s ELSE OutsideSpan(s, d, i, find(s, d, i + Len(d)))

\* The text outside the spans delimited by d: every span is emptied.
OutsideSpans(s, d) == OutsideFrom(s, d, find(s, d, 1))

\* A line whose spans are of one kind.
OneKindOfSpan(l) == ~(contains(l, <<"BACKTICK">>) /\ contains(l, <<"$">>))

\* An escaper output without its underscore escapes.
UnderscoresPlain(s) == replace(s, <<"\\", "_">>, <<"_">>)

\* C26: in what the escaper returns, every "&", "%", ">", "<" and "#" outside
\* the math and inline-code spans has a backslash before it, also when the
\* text of a span stands outside the span as well.
C26_OutsideEscaped ==
  (ret.fn = "handle_special_characters" /\ OneKindOfSpan(call.lines[1])) =>
    OutsideSpans(UnderscoresPlain(ret.out), DelimiterOf(call.lines[1]))
      = EscapedText(OutsideSpans(call.lines[1], DelimiterOf(call.lines[1])))

(***************************************************************************)
(* C27: an odd number of delimiters.                                       *)
(***************************************************************************)
\* Three backticks or more, odd in number, and no "$"; or "$" odd in number.
OddDelimiters(l) ==
  \/ (count(l, <<"BACKTICK">>) % 2 = 1 /\ count(l, <<"BACKTICK">>) >= 3 /\ count(l, <<"$">>) = 0)
  \/ (count(l, <<"$">>) % 2 = 1 /\ count(l, <<"BACKTICK">>) = 0)

\* C27: a line with an odd number of delimiters is not taken as a line with
\* spans to protect: every underscore outside its spans is escaped in what
\* the escaper returns.
C27_OddDelimiters ==
  (ret.fn = "handle_special_characters" /\ OddDelimiters(call.lines[1])) =>
    count(OutsideSpans(ret.out, DelimiterOf(call.lines[1])), <<"\\", "_">>)
      = count(OutsideSpans(call.lines[1], DelimiterOf(call.lines[1])), <<"_">>)

(***************************************************************************)
(* C28: the items of a list.                                               *)
(***************************************************************************)
\* The item a bullet line gives when it is styled and escaped as the opening
\* line of a list is: the text after the dash, with its end of line.
EscapedItem(l) ==
  <<"\\", "i", "t", "e", "m", " ">> (* "\\item " *) \o lstrip_chars(handle_special_characters(replace_text_style(l)), {"-", " "})

\* The 0-based indices of the bullet lines of the list that begins at line i.
ListLines(lines_, i) == i..(i + BulletRun(lines_, i + 1) - 1)

\* C28: in the list the conversion routine returns, the item of every bullet
\* line after the opener is escaped as the item of the opening line is: the
\* escaped item of a line stands in the list as often as the line does.
C28_ItemsEscaped ==
  (ret.fn = "apply_conversion_routine" /\ IsBullet(at(call.lines, call.idx))) =>
    /\ ret.out.exc = ""
    /\ \A j \in ListLines(call.lines, call.idx) :
         count(ret.out.line, EscapedItem(at(call.lines, j)))
           >= Cardinality({ k \in ListLines(call.lines, call.idx) :
                              at(call.lines, k) = at(call.lines, j) })

(***************************************************************************)
(* C29: ragged tables.                                                     *)
(***************************************************************************)
\* C29: called on a line that starts with "|", the table recognizer returns
\* a result, whatever the numbers of separators of the rows of the run are.
C29_TableReturns ==
  (ret.fn = "convert_to_latex_table" /\ PipeRun(call.lines, call.idx) >= 1) =>
    ret.out.exc = "" /\ ~ret.out.none
====
